---- MODULE Spec2Model ----
(***************************************************************************)
(* Model of the stack extension's core:                                    *)
(*   - StackCache (src/stack/stackCache.ts): the per-repository cache of   *)
(*     the stack forest, with its asynchronous getStacks / refreshStacks   *)
(*     calls and the synchronous clearCache;                               *)
(*   - StackApi.exec (src/stack/index.ts): the subprocess client, its      *)
(*     stderr line reassembly and its close handler, two overlapping       *)
(*     invocations, the status listeners, stdout, and the mutating         *)
(*     operations built on exec;                                           *)
(*   - StackTreeDataProvider (src/StackTreeDataProvider.ts) with the       *)
(*     repository handler of extension.ts: the open repositories, their    *)
(*     caches and the routing of the commands invoked with a tree element, *)
(*     the repositories that are closed, a command with its mutating       *)
(*     operation and its refresh(), the children of a stack element and    *)
(*     of a branch element, the ids of the tree items, and the stack count *)
(*     queries of the repositories;                                        *)
(*   - the lookups by name of StackCache;                                  *)
(*   - MultiRepoStackTreeDataProvider: its root listing.                   *)
(* JavaScript is single threaded: every action below is one run-to-        *)
(* completion step (a synchronous call prefix, or an event handler with    *)
(* the promise continuations it releases).                                 *)
(***************************************************************************)
EXTENDS Integers, Sequences, FiniteSets, TLC

\* ------------------------------------------------------------------ bounds
MaxCalls == 3
MaxClears == 2

Calls == 1..MaxCalls

\* ------------------------------------------------------- values of the world
\* `null`, the initial value of StackCache.cache
Null == [null |-> TRUE]

\* the forests the status query can print: lists of stack names, the empty
\* list included
ForestContents == {<<>>, <<"s1">>}

\* primary-channel texts of the status query: a well-formed JSON document of
\* a forest, or text that is not JSON
StdoutTexts ==
    [wellFormed : {TRUE}, doc : ForestContents] \cup {[wellFormed |-> FALSE, doc |-> <<>>]}

\* auxiliary-channel texts accumulated in stderrBuffer when the process closes
StderrTexts == {"error: branch not found"}

ExitCodes == {0, 1}

\* the command line of StackApi.getStacks
StatusCmd == "stack status --all --json"

NoResult == [pending |-> TRUE]

\* ------------------------------------------------------------ the client
\* child.on("close"): resolve(stdoutBuffer) on code 0, else reject with an
\* Error whose message holds the exit code, the command and stderrBuffer
CloseHandler(code, cmd, stdoutBuffer, stderrBuffer) ==
    IF code = 0
    THEN [ok |-> TRUE, value |-> stdoutBuffer]
    ELSE [ok |-> FALSE,
          error |-> [name |-> "Error", code |-> code, cmd |-> cmd, stderr |-> stderrBuffer]]

\* execJson: JSON.parse of the text exec resolved with; a rejection of exec
\* and the SyntaxError of JSON.parse both reject execJson. The parsed value
\* is a new object: `id` is the identity of the object this fetch created.
execJson(settled, id) ==
    IF ~settled.ok THEN settled
    ELSE IF settled.value.wellFormed
         THEN [ok |-> TRUE, value |-> [id |-> id, stacks |-> settled.value.doc]]
         ELSE [ok |-> FALSE, error |-> [name |-> "SyntaxError"]]

\* ------------------------------------------- the auxiliary channel (stderr)
MaxLines == 2
MaxInvocations == 2

\* Bytes the process writes. "C3" "A9" are the two bytes of U+00E9 in UTF-8;
\* the other bytes are ASCII. A JSON event is written in a short form:
\* "{", the digit of its EventId, the characters of its Message, "}".
Digits == {"1", "2"}

\* the lines the process can write, without their terminator
LineBodies ==
    { <<"{", "1", "a", "}">>,
      <<"{", "2", "a", "}">>,
      <<"{", "1", "C3", "A9", "}">>,
      <<"a">>,
      <<"C3", "A9">>,
      <<>> }
Terminators == { <<"LF">>, <<"CR", "LF">> }
\* what the process can leave unterminated when it exits
Fragments == { <<>>, <<"a">>, <<"{", "1">> }

RECURSIVE LinesOf(_)
\* the byte streams of at most n terminated lines
LinesOf(n) ==
    IF n = 0 THEN { <<>> }
    ELSE LinesOf(n - 1) \cup
         { s \o b \o t : s \in LinesOf(n - 1), b \in LineBodies, t \in Terminators }
Streams == { s \o f : s \in LinesOf(MaxLines), f \in Fragments }

RECURSIVE toString(_)
\* Buffer.toString(): UTF-8 decoding of one chunk on its own; a lead byte
\* without its continuation byte and a continuation byte without its lead
\* byte each decode to U+FFFD
toString(data) ==
    IF data = <<>> THEN <<>>
    ELSE IF Head(data) = "C3"
         THEN IF Len(data) >= 2 /\ data[2] = "A9"
              THEN <<"E9">> \o toString(SubSeq(data, 3, Len(data)))
              ELSE <<"FFFD">> \o toString(Tail(data))
         ELSE IF Head(data) = "A9"
              THEN <<"FFFD">> \o toString(Tail(data))
              ELSE <<Head(data)>> \o toString(Tail(data))

RECURSIVE SplitFrom(_, _, _)
\* buffer.split(/\r?\n/), cur being the piece under construction
SplitFrom(text, cur, acc) ==
    IF text = <<>> THEN Append(acc, cur)
    ELSE IF Head(text) = "LF"
         THEN SplitFrom(Tail(text), <<>>,
                        Append(acc, IF cur # <<>> /\ cur[Len(cur)] = "CR"
                                    THEN SubSeq(cur, 1, Len(cur) - 1)
                                    ELSE cur))
         ELSE SplitFrom(Tail(text), Append(cur, Head(text)), acc)
Split(text) == SplitFrom(text, <<>>, <<>>)

WhiteSpace == {"CR", "SP"}
RECURSIVE trim(_)
\* String.prototype.trim
trim(line) ==
    IF line = <<>> THEN <<>>
    ELSE IF Head(line) \in WhiteSpace THEN trim(Tail(line))
    ELSE IF line[Len(line)] \in WhiteSpace THEN trim(SubSeq(line, 1, Len(line) - 1))
    ELSE line

\* JSON.parse of a trimmed line: a number, null ("null" stands for the four
\* characters), a string ("Q" is the double quote), the empty array, the
\* object without members, an event object, or a SyntaxError
JSONparse(t) ==
    IF \A i \in 1..Len(t) : t[i] \in Digits
    THEN [kind |-> "number"]
    ELSE IF t = <<"null">>
    THEN [kind |-> "null"]
    ELSE IF /\ Len(t) >= 2 /\ t[1] = "Q" /\ t[Len(t)] = "Q"
            /\ \A i \in 2..(Len(t) - 1) : t[i] \notin {"Q", "LF", "CR"}
    THEN [kind |-> "string"]
    ELSE IF t = <<"[", "]">>
    THEN [kind |-> "array"]
    ELSE IF t = <<"{", "}">>
    THEN [kind |-> "plain"]
    ELSE IF /\ Len(t) >= 3 /\ t[1] = "{" /\ t[Len(t)] = "}" /\ t[2] \in Digits
            /\ \A i \in 3..(Len(t) - 1) : t[i] \notin Digits \cup {"{", "}"}
         THEN [kind |-> "object", EventId |-> t[2], Message |-> SubSeq(t, 3, Len(t) - 1)]
         ELSE [kind |-> "SyntaxError"]

\* the prefix switch on parsed.EventId
Prefix(eventId) ==
    IF eventId = "1" THEN "[status] " ELSE IF eventId = "2" THEN "[success] " ELSE ""

\* A listener registered with onStatus: a callback that returns or throws.
Listeners == [throws : BOOLEAN]

\* the listeners of a client that registered one listener before its first
\* invocation
StatusListeners == << [throws |-> FALSE] >>

RECURSIVE CallListenersAbortOnThrow(_, _, _)
\* a variant whose loop ends at the first listener that throws
CallListenersAbortOnThrow(listeners, i, msg) ==
    IF i > Len(listeners) THEN <<>>
    ELSE << [kind |-> "status", listener |-> i, text |-> msg] >>
         \o (IF listeners[i].throws THEN <<>>
             ELSE CallListenersAbortOnThrow(listeners, i + 1, msg))

RECURSIVE CallListeners(_, _, _)
\* `for (const l of this._statusListeners) { try { l(msg) } catch {} }`,
\* from the i-th listener on: the calls made, in order; what a listener
\* throws is caught and the loop goes on
CallListeners(listeners, i, msg) ==
    IF i > Len(listeners) THEN <<>>
    ELSE << [kind |-> "status", listener |-> i, text |-> msg] >>
         \o CallListeners(listeners, i + 1, msg)

\* `parsed.EventId === StackCliEvents.Status && parsed.Message`
IsStatus(parsed) == parsed.EventId = "1" /\ parsed.Message # <<>>

\* a variant that gives up the rest of the chunk at a line that is not JSON
AfterSyntaxErrorStop(rest) == <<>>

\* the `continue` after the catch of JSON.parse: the loop goes on with the
\* lines that follow
AfterSyntaxError(rest) == rest

\* the body of the `for (const line of lines)` loop: what one complete line
\* adds to the log and which listener calls it causes (LogLevel is
\* "Information" throughout). A number, a string, an array and an object
\* without members have no EventId and no Message: `${parsed.Message}` is
\* "undefined". `parsed.EventId` of null throws a TypeError.
ProcessLine(line, listeners) ==
    LET trimmed == trim(line) IN
    IF trimmed = <<>> THEN <<>>
    ELSE LET parsed == JSONparse(trimmed) IN
         IF parsed.kind = "SyntaxError"
         THEN << [kind |-> "log", level |-> "info", prefix |-> "", text |-> trimmed] >>
         ELSE IF parsed.kind = "null"
         THEN << [kind |-> "exception", name |-> "TypeError"] >>
         ELSE IF parsed.kind \in {"number", "string", "array", "plain"}
         THEN << [kind |-> "log", level |-> "info", prefix |-> "", text |-> <<"undefined">>] >>
         ELSE << [kind |-> "log", level |-> "info", prefix |-> Prefix(parsed.EventId),
                  text |-> parsed.Message] >>
              \o (IF IsStatus(parsed)
                  THEN CallListeners(listeners, 1, parsed.Message)
                  ELSE <<>>)

RECURSIVE ProcessLines(_, _)
\* the `for (const line of lines)` loop; the TypeError of a line leaves the
\* loop and the handler
ProcessLines(lines, listeners) ==
    IF lines = <<>> THEN <<>>
    ELSE ProcessLine(Head(lines), listeners)
         \o (IF JSONparse(trim(Head(lines))).kind = "SyntaxError"
             THEN ProcessLines(AfterSyntaxError(Tail(lines)), listeners)
             ELSE IF trim(Head(lines)) # <<>> /\ JSONparse(trim(Head(lines))).kind = "null"
             THEN <<>>
             ELSE ProcessLines(Tail(lines), listeners))

\* `this._stderrLineBuffer = lines.pop() || ""`, with the pieces before it
Pop(lines) ==
    [lines |-> SubSeq(lines, 1, Len(lines) - 1), rest |-> lines[Len(lines)]]

\* child.stderr.on("data"): the line buffer after the chunk and the events
\* the chunk causes, for the line buffer `buffer` before it and the
\* listeners registered when the chunk arrives
OnStderrData(buffer, data, listeners) ==
    LET chunk == toString(data)
        popped == Pop(Split(buffer \o chunk))
    IN  IF chunk = <<>>
        THEN [buffer |-> buffer, events |-> <<>>]
        ELSE [buffer |-> popped.rest, events |-> ProcessLines(popped.lines, listeners)]

\* ------------------------------------------------------------- the cache
VARIABLES
    cache,        \* StackCache.cache: Null or the stored forest
    calls,        \* the getStacks / refreshStacks calls made on the cache
    invocations,  \* number of stackApi.getStacks() invocations so far
    clearStreak,  \* number of clearCache() calls since the last other step
    \* the client (StackApi) and the process of its current invocation
    stderrLineBuffer,  \* StackApi._stderrLineBuffer
    proc,              \* the child process of exec: its stderr bytes and how
                       \* many of them have been delivered
    stderrBuffer,      \* exec's local stderrBuffer
    events,            \* what the invocation has logged and told the listeners
    own,               \* the same decoding done with a line buffer that
                       \* belongs to the invocation alone
    outcome,           \* how the promise of exec has settled
    other,             \* a second invocation of the same client, running
                       \* while the first one runs
    statusListeners,   \* StackApi._statusListeners
    stdoutBuffer,      \* exec's local stdoutBuffer
    stdoutChunks,      \* the stdout chunks of the invocation, as they arrived
    apiCall,           \* the last mutating operation called on the client and
                       \* the promise it returned
    \* the tree provider (StackTreeDataProvider) and the user of the tree
    apis,                    \* the keys of StackTreeDataProvider.apis, in
                             \* insertion order: the open repositories
    stackCaches,             \* the cache of each repository: Null or a forest
    repositoryStackCounts,   \* the repositories whose stack count is known
    loadingStackCounts,      \* StackTreeDataProvider.loadingStackCounts
    countLoads,              \* the repositories with a stack list query running
    held,                    \* a tree element the user got from getChildren
    lastOp,                  \* the operation the provider has just run, if
                             \* the last step was a root listing or took an
                             \* element: the repository the element came from,
                             \* the client it ran against, the caches it
                             \* fetched, the children it returned
    gitRepositories,         \* gitAPI.repositories: the repositories the git
                             \* extension has open
    \* a command of the provider, a lookup in the cache, a branch element
    command,           \* the command of the provider that is running or has
                       \* run last, with the mutating operation it called
    lookup,            \* the getStackByName / getBranchByName call made last
    branchChildren,    \* the branch element expanded last and its children
    \* the stack count queries, the aggregating provider
    stackCountLoads,   \* the stack list queries of loadRepositoryStackCount
                       \* that are running, for each repository: those
                       \* started since the last refresh() and those started
                       \* before it; and the repositories whose recorded
                       \* count came from one of the latter
    aggregated         \* MultiRepoStackTreeDataProvider: its repositories
                       \* and its root listing

cacheVars == <<cache, calls, invocations, clearStreak>>
procVars == <<stderrLineBuffer, proc, stderrBuffer, events, own, outcome>>
overlapVars == <<other>>
clientVars == <<statusListeners, stdoutBuffer, stdoutChunks, apiCall>>
treeVars == <<apis, stackCaches, repositoryStackCounts, loadingStackCounts,
              countLoads, held, lastOp, gitRepositories>>
multiVars == <<stackCountLoads, aggregated>>
viewVars == <<command, lookup, branchChildren, multiVars>>
execVars == <<procVars, overlapVars, clientVars, treeVars, viewVars>>
vars == <<cache, calls, invocations, clearStreak,
          stderrLineBuffer, proc, stderrBuffer, events, own, outcome, other,
          statusListeners, stdoutBuffer, stdoutChunks, apiCall,
          apis, stackCaches, repositoryStackCounts, loadingStackCounts,
          countLoads, held, lastOp, gitRepositories,
          command, lookup, branchChildren,
          stackCountLoads, aggregated>>

\* A call: its operation, where it stands (idle, awaiting its fetch, done),
\* the number of the client invocation it made (0: none), how its fetch
\* settled and what it returned or threw. Three fields record its history:
\* afterClears (it was issued right after two or more clearCache() calls; kept
\* while it is in flight), loadedBefore (the cache was Loaded when it was
\* issued) and clearedDuring (clearCache() ran while it was in flight).
IdleCall ==
    [op |-> "none", pc |-> "idle", inv |-> 0,
     afterClears |-> FALSE, loadedBefore |-> FALSE, clearedDuring |-> FALSE,
     settled |-> NoResult, result |-> NoResult]

InFlight == {c \in Calls : calls[c].pc = "awaiting"}

\* calls are numbered in the order they are issued
Issued == Cardinality({c \in Calls : calls[c].pc # "idle"})

\* a variant that also takes the empty array for a missing cache
FalsyOrEmpty(v) == IF v = Null THEN TRUE ELSE v.stacks = <<>>
\* `!this.cache`: null is falsy, every array (the empty one too) is truthy
Falsy(v) == v = Null

\* a variant that replaces the client's error by an error of the cache
AwaitAssignWrapError(cur, s) ==
    IF s.ok
    THEN [cache |-> s.value, result |-> s]
    ELSE [cache |-> cur, result |-> [ok |-> FALSE, error |-> [name |-> "CacheError"]]]
\* a variant that empties the cache when the fetch fails
AwaitAssignClearOnError(cur, s) ==
    IF s.ok
    THEN [cache |-> s.value, result |-> s]
    ELSE [cache |-> Null, result |-> s]
\* `this.cache = await <fetch>; return this.cache;` once the fetch has
\* settled: a rejection is rethrown before the assignment
AwaitAssign(cur, s) ==
    IF s.ok
    THEN [cache |-> s.value, result |-> [ok |-> TRUE, value |-> s.value]]
    ELSE [cache |-> cur, result |-> s]

\* a call that starts stackApi.getStacks() and suspends at the await
StartFetch(c, op) ==
    /\ invocations' = invocations + 1
    /\ calls' = [calls EXCEPT ![c] =
           [IdleCall EXCEPT !.op = op, !.pc = "awaiting", !.inv = invocations + 1,
                            !.afterClears = (clearStreak >= 2),
                            !.loadedBefore = (cache # Null)]]
    /\ UNCHANGED cache

\* StackCache.getStacks, up to its await or its return
GetStacks(c) ==
    /\ c = Issued + 1
    /\ IF Falsy(cache)
       THEN StartFetch(c, "getStacks")
       ELSE /\ calls' = [calls EXCEPT ![c] =
                   [IdleCall EXCEPT !.op = "getStacks", !.pc = "done",
                                    !.loadedBefore = TRUE,
                                    !.result = [ok |-> TRUE, value |-> cache]]]
            /\ UNCHANGED <<cache, invocations>>
    /\ clearStreak' = 0
    /\ UNCHANGED execVars

\* a variant of refreshStacks that fetches only when the cache is Empty
RefreshStacksIfEmpty(c) ==
    /\ c = Issued + 1
    /\ IF Falsy(cache)
       THEN StartFetch(c, "refreshStacks")
       ELSE /\ calls' = [calls EXCEPT ![c] =
                   [IdleCall EXCEPT !.op = "refreshStacks", !.pc = "done",
                                    !.result = [ok |-> TRUE, value |-> cache]]]
            /\ UNCHANGED <<cache, invocations>>
    /\ clearStreak' = 0
    /\ UNCHANGED execVars
\* StackCache.refreshStacks, up to its await
RefreshStacks(c) ==
    /\ c = Issued + 1
    /\ StartFetch(c, "refreshStacks")
    /\ clearStreak' = 0
    /\ UNCHANGED execVars

\* the fetch of call c settles with s and the call resumes after its await
Resume(c, s) ==
    LET r == AwaitAssign(cache, s) IN
    /\ cache' = r.cache
    /\ calls' = [calls EXCEPT ![c].pc = "done", ![c].afterClears = FALSE,
                              ![c].settled = s, ![c].result = r.result]
    /\ clearStreak' = 0
    /\ UNCHANGED execVars
    /\ UNCHANGED invocations

\* the status process of call c closes
Close(c) ==
    /\ calls[c].pc = "awaiting"
    /\ \E code \in ExitCodes, out \in StdoutTexts, err \in StderrTexts :
         Resume(c, execJson(CloseHandler(code, StatusCmd, out, err), calls[c].inv))

\* a variant of clearCache that cancels the fetches in flight
ClearCacheCancelling ==
    /\ clearStreak < MaxClears
    /\ cache' = Null
    /\ clearStreak' = clearStreak + 1
    /\ calls' = [c \in Calls |->
                   IF calls[c].pc = "awaiting"
                   THEN [calls[c] EXCEPT !.pc = "done",
                                         !.result = [ok |-> FALSE, error |-> [name |-> "Cancelled"]]]
                   ELSE calls[c]]
    /\ UNCHANGED invocations
    /\ UNCHANGED execVars
\* a variant of clearCache that stores an empty forest
ClearCacheToEmptyList ==
    /\ clearStreak < MaxClears
    /\ cache' = [id |-> 0, stacks |-> <<>>]
    /\ clearStreak' = clearStreak + 1
    /\ calls' = [c \in Calls |->
                   IF calls[c].pc = "awaiting"
                   THEN [calls[c] EXCEPT !.clearedDuring = TRUE]
                   ELSE calls[c]]
    /\ UNCHANGED invocations
    /\ UNCHANGED execVars
\* StackCache.clearCache
ClearCache ==
    /\ clearStreak < MaxClears
    /\ cache' = Null
    /\ clearStreak' = clearStreak + 1
    /\ calls' = [c \in Calls |->
                   IF calls[c].pc = "awaiting"
                   THEN [calls[c] EXCEPT !.clearedDuring = TRUE]
                   ELSE calls[c]]
    /\ UNCHANGED invocations
    /\ UNCHANGED execVars

\* -------------------------------------------------------- exec, one process
\* code is the exit code of the process once it has closed
NoProc == [pc |-> "none", no |-> 0, stream |-> <<>>, pos |-> 0, code |-> -1]

\* the command line of the invocations
ExecCmd == "stack sync --json"

\* exec(cmd): spawn the child; stdoutBuffer and stderrBuffer start empty,
\* the line buffer of the client is left as it is
Spawn ==
    /\ proc.pc # "running"
    /\ proc.no < MaxInvocations
    /\ \E s \in Streams :
         proc' = [pc |-> "running", no |-> proc.no + 1, stream |-> s, pos |-> 0,
                  code |-> -1]
    /\ stderrBuffer' = <<>>
    /\ events' = <<>>
    /\ own' = [buffer |-> <<>>, events |-> <<>>]
    /\ outcome' = NoResult
    /\ UNCHANGED stderrLineBuffer
    /\ UNCHANGED overlapVars
    /\ UNCHANGED clientVars
    /\ UNCHANGED cacheVars
    /\ UNCHANGED <<treeVars, viewVars>>

\* child.stderr.on("data") for the next n bytes of the stream
StderrData ==
    /\ proc.pc = "running"
    /\ \E n \in 1..(Len(proc.stream) - proc.pos) :
         LET data == SubSeq(proc.stream, proc.pos + 1, proc.pos + n)
             r == OnStderrData(stderrLineBuffer, data, StatusListeners)
             o == OnStderrData(own.buffer, data, StatusListeners)
         IN  /\ proc' = [proc EXCEPT !.pos = proc.pos + n]
             /\ stderrBuffer' = stderrBuffer \o toString(data)
             /\ stderrLineBuffer' = r.buffer
             /\ events' = events \o r.events
             /\ own' = [buffer |-> o.buffer, events |-> own.events \o o.events]
    /\ UNCHANGED outcome
    /\ UNCHANGED overlapVars
    /\ UNCHANGED clientVars
    /\ UNCHANGED cacheVars
    /\ UNCHANGED <<treeVars, viewVars>>

\* child.on("close"), once every byte of stderr has been delivered
CloseProc ==
    /\ proc.pc = "running"
    /\ proc.pos = Len(proc.stream)
    /\ \E code \in ExitCodes :
         /\ outcome' = CloseHandler(code, ExecCmd, <<>>, stderrBuffer)
         /\ proc' = [proc EXCEPT !.pc = "closed", !.code = code]
    /\ UNCHANGED <<stderrLineBuffer, stderrBuffer, events, own>>
    /\ UNCHANGED overlapVars
    /\ UNCHANGED clientVars
    /\ UNCHANGED cacheVars
    /\ UNCHANGED <<treeVars, viewVars>>

NextExec ==
    \/ Spawn
    \/ StderrData
    \/ CloseProc

\* ------------------------------------- exec, two overlapping invocations
MaxOverlapLines == 1
RECURSIVE OverlapLines(_)
\* at most n lines, each a status event or plain text, ended by a line feed
OverlapLines(n) ==
    IF n = 0 THEN { <<>> }
    ELSE OverlapLines(n - 1) \cup
         { s \o b \o <<"LF">> : s \in OverlapLines(n - 1),
                                b \in { <<"{", "1", "a", "}">>, <<"a">> } }
\* what each of the two processes writes to stderr
OverlapStreams == { s \o f : s \in OverlapLines(MaxOverlapLines), f \in {<<>>, <<"a">>} }

\* The second invocation: its process (pc, stream, pos), its local
\* stderrBuffer, what it has logged and told the listeners, the same decoding
\* done with a line buffer of its own, and how its promise has settled.
NoOther ==
    [pc |-> "none", stream |-> <<>>, pos |-> 0, stderrBuffer |-> <<>>,
     events |-> <<>>, own |-> [buffer |-> <<>>, events |-> <<>>],
     outcome |-> NoResult]

\* exec(cmd) on a client that runs no process
SpawnFirst ==
    /\ proc.pc = "none"
    /\ \E s \in OverlapStreams :
         proc' = [pc |-> "running", no |-> 1, stream |-> s, pos |-> 0, code |-> -1]
    /\ stderrBuffer' = <<>>
    /\ events' = <<>>
    /\ own' = [buffer |-> <<>>, events |-> <<>>]
    /\ outcome' = NoResult
    /\ UNCHANGED <<stderrLineBuffer, other>>
    /\ UNCHANGED clientVars
    /\ UNCHANGED cacheVars
    /\ UNCHANGED <<treeVars, viewVars>>

\* exec(cmd) on the same client while the first process runs
SpawnSecond ==
    /\ proc.pc = "running"
    /\ other.pc = "none"
    /\ \E s \in OverlapStreams :
         other' = [NoOther EXCEPT !.pc = "running", !.stream = s]
    /\ UNCHANGED procVars
    /\ UNCHANGED clientVars
    /\ UNCHANGED cacheVars
    /\ UNCHANGED <<treeVars, viewVars>>

\* child.stderr.on("data") of the first process
StderrDataFirst ==
    /\ StderrData
    /\ UNCHANGED other

\* child.stderr.on("data") of the second process: its closure has its own
\* stderrBuffer, the line buffer is the field of the client
StderrDataSecond ==
    /\ other.pc = "running"
    /\ \E n \in 1..(Len(other.stream) - other.pos) :
         LET data == SubSeq(other.stream, other.pos + 1, other.pos + n)
             r == OnStderrData(stderrLineBuffer, data, StatusListeners)
             o == OnStderrData(other.own.buffer, data, StatusListeners)
         IN  /\ other' = [other EXCEPT
                            !.pos = other.pos + n,
                            !.stderrBuffer = other.stderrBuffer \o toString(data),
                            !.events = other.events \o r.events,
                            !.own = [buffer |-> o.buffer,
                                     events |-> other.own.events \o o.events]]
             /\ stderrLineBuffer' = r.buffer
    /\ UNCHANGED <<proc, stderrBuffer, events, own, outcome>>
    /\ UNCHANGED clientVars
    /\ UNCHANGED cacheVars
    /\ UNCHANGED <<treeVars, viewVars>>

\* child.on("close") of the first process
CloseFirst ==
    /\ CloseProc
    /\ UNCHANGED other

\* child.on("close") of the second process
CloseSecond ==
    /\ other.pc = "running"
    /\ other.pos = Len(other.stream)
    /\ \E code \in ExitCodes :
         other' = [other EXCEPT
                     !.pc = "closed",
                     !.outcome = CloseHandler(code, ExecCmd, <<>>, other.stderrBuffer)]
    /\ UNCHANGED procVars
    /\ UNCHANGED clientVars
    /\ UNCHANGED cacheVars
    /\ UNCHANGED <<treeVars, viewVars>>

NextOverlap ==
    \/ SpawnFirst
    \/ SpawnSecond
    \/ StderrDataFirst
    \/ StderrDataSecond
    \/ CloseFirst
    \/ CloseSecond

\* ------------------------------- exec, with listeners and both channels
MaxListeners == 2
MaxStdoutChunks == 2

\* the lines the process writes to stderr: an event (EventId 1 or 2, with
\* or without a Message) or plain text, ended by a line feed
ClientLines ==
    { b \o <<"LF">> : b \in { <<"{", "1", "a", "}">>, <<"{", "2", "a", "}">>,
                              <<"{", "1", "}">>, <<"a">> } }
\* what the process writes to stderr: no line, one line or two lines, and
\* possibly the beginning of one more
ClientStreams ==
    { x \o y \o f : x \in ClientLines \cup {<<>>}, y \in ClientLines \cup {<<>>},
                    f \in {<<>>, <<"{", "1">>} }
\* the chunks the process can write to stdout
StdoutChunks == { <<"x">>, <<"y", "z">> }

RECURSIVE Flatten(_)
\* the chunks, decoded, one after the other
Flatten(chunks) ==
    IF chunks = <<>> THEN <<>>
    ELSE toString(Head(chunks)) \o Flatten(Tail(chunks))

\* onStatus(listener)
OnStatus ==
    /\ Len(statusListeners) < MaxListeners
    /\ \E l \in Listeners : statusListeners' = Append(statusListeners, l)
    /\ UNCHANGED <<stdoutBuffer, stdoutChunks, apiCall>>
    /\ UNCHANGED <<procVars, overlapVars>>
    /\ UNCHANGED cacheVars
    /\ UNCHANGED <<treeVars, viewVars>>

\* exec(cmd): spawn the child; stdoutBuffer and stderrBuffer start empty
SpawnClient ==
    /\ proc.pc # "running"
    /\ proc.no < MaxInvocations
    /\ \E s \in ClientStreams :
         proc' = [pc |-> "running", no |-> proc.no + 1, stream |-> s, pos |-> 0,
                  code |-> -1]
    /\ stdoutBuffer' = <<>>
    /\ stdoutChunks' = <<>>
    /\ stderrBuffer' = <<>>
    /\ events' = <<>>
    /\ outcome' = NoResult
    /\ UNCHANGED <<stderrLineBuffer, own, statusListeners, apiCall>>
    /\ UNCHANGED overlapVars
    /\ UNCHANGED cacheVars
    /\ UNCHANGED <<treeVars, viewVars>>

\* a variant that keeps the last chunk only
StdoutReplace(buffer, text) == text

\* `stdoutBuffer += text`
StdoutAppend(buffer, text) == buffer \o text

\* child.stdout.on("data")
StdoutData ==
    /\ proc.pc = "running"
    /\ Len(stdoutChunks) < MaxStdoutChunks
    /\ \E data \in StdoutChunks :
         /\ stdoutBuffer' = StdoutAppend(stdoutBuffer, toString(data))
         /\ stdoutChunks' = Append(stdoutChunks, data)
    /\ UNCHANGED <<statusListeners, apiCall>>
    /\ UNCHANGED <<procVars, overlapVars>>
    /\ UNCHANGED cacheVars
    /\ UNCHANGED <<treeVars, viewVars>>

\* child.stderr.on("data") for the next n bytes of the stream, with the
\* listeners registered when the chunk arrives
StderrDataClient ==
    /\ proc.pc = "running"
    /\ \E n \in 1..(Len(proc.stream) - proc.pos) :
         LET data == SubSeq(proc.stream, proc.pos + 1, proc.pos + n)
             r == OnStderrData(stderrLineBuffer, data, statusListeners)
         IN  /\ proc' = [proc EXCEPT !.pos = proc.pos + n]
             /\ stderrBuffer' = stderrBuffer \o toString(data)
             /\ stderrLineBuffer' = r.buffer
             /\ events' = events \o r.events
    /\ UNCHANGED <<own, outcome>>
    /\ UNCHANGED <<overlapVars, clientVars>>
    /\ UNCHANGED cacheVars
    /\ UNCHANGED <<treeVars, viewVars>>

\* child.on("error"): the child could not be spawned
ChildError ==
    /\ proc.pc = "running"
    /\ proc.pos = 0
    /\ stdoutChunks = <<>>
    /\ proc' = [proc EXCEPT !.pc = "failed"]
    /\ outcome' = [ok |-> FALSE, error |-> [name |-> "Error", syscall |-> "spawn"]]
    /\ UNCHANGED <<stderrLineBuffer, stderrBuffer, events, own>>
    /\ UNCHANGED <<overlapVars, clientVars>>
    /\ UNCHANGED cacheVars
    /\ UNCHANGED <<treeVars, viewVars>>

\* child.on("close"), once every byte of both channels has been delivered
CloseClient ==
    /\ proc.pc = "running"
    /\ proc.pos = Len(proc.stream)
    /\ \E code \in ExitCodes :
         /\ outcome' = CloseHandler(code, ExecCmd, stdoutBuffer, stderrBuffer)
         /\ proc' = [proc EXCEPT !.pc = "closed", !.code = code]
    /\ UNCHANGED <<stderrLineBuffer, stderrBuffer, events, own>>
    /\ UNCHANGED <<overlapVars, clientVars>>
    /\ UNCHANGED cacheVars
    /\ UNCHANGED <<treeVars, viewVars>>

\* the lines of any content: text that is not JSON, an object without the
\* event fields, null, a number, a string, an array, and a status event
AnyLines ==
    { b \o <<"LF">> : b \in { <<"a">>, <<"{", "}">>, <<"null">>, <<"1">>,
                              <<"Q", "a", "Q">>, <<"[", "]">>,
                              <<"{", "1", "a", "}">> } }
\* one or two of them
AnyStreams == { x \o y : x \in AnyLines, y \in AnyLines \cup {<<>>} }

\* exec(cmd) for a process that writes such lines
SpawnAny ==
    /\ proc.pc # "running"
    /\ proc.no < MaxInvocations
    /\ \E s \in AnyStreams :
         proc' = [pc |-> "running", no |-> proc.no + 1, stream |-> s, pos |-> 0,
                  code |-> -1]
    /\ stdoutBuffer' = <<>>
    /\ stdoutChunks' = <<>>
    /\ stderrBuffer' = <<>>
    /\ events' = <<>>
    /\ outcome' = NoResult
    /\ UNCHANGED <<stderrLineBuffer, own, statusListeners, apiCall>>
    /\ UNCHANGED overlapVars
    /\ UNCHANGED cacheVars
    /\ UNCHANGED <<treeVars, viewVars>>

NextLines ==
    \/ OnStatus
    \/ SpawnAny
    \/ StderrDataClient
    \/ CloseClient

NextClient ==
    \/ OnStatus
    \/ SpawnClient
    \/ StdoutData
    \/ StderrDataClient
    \/ ChildError
    \/ CloseClient

\* ------------------------------------------ the mutating client operations
MutatingOps ==
    { "newStack", "newBranch", "addBranch", "removeBranch", "sync", "pull",
      "push", "update", "delete", "cleanup", "switchToBranch" }

\* the command line of each operation, without its arguments
CmdOf(op) ==
    CASE op = "newStack" -> "stack new --json"
      [] op = "newBranch" -> "stack branch new --json"
      [] op = "addBranch" -> "stack branch add --json"
      [] op = "removeBranch" -> "stack branch remove --yes --json"
      [] op = "sync" -> "stack sync --yes --json"
      [] op = "pull" -> "stack pull --json"
      [] op = "push" -> "stack push --json"
      [] op = "update" -> "stack update --json"
      [] op = "delete" -> "stack delete --yes --json"
      [] op = "cleanup" -> "stack cleanup --yes --json"
      [] op = "switchToBranch" -> "stack switch --json"

\* the operations whose body is `await this.exec(...)`; newStack calls
\* `this.exec(cmd)` and returns
Awaits(op) == op # "newStack"

\* what the process of an operation writes to stderr
OpStreams == { <<>>, <<"a", "LF">> }

NoCall == [op |-> "none", promise |-> NoResult]
\* the value of an async function that returns nothing
Undefined == [ok |-> TRUE, value |-> "undefined"]

\* one of the operations is called: exec spawns the child; an operation that
\* does not await exec returns at once and its promise is resolved
Invoke(op) ==
    /\ proc.pc # "running"
    /\ proc.no < MaxInvocations
    /\ \E s \in OpStreams :
         proc' = [pc |-> "running", no |-> proc.no + 1, stream |-> s, pos |-> 0,
                  code |-> -1]
    /\ apiCall' = [op |-> op, promise |-> IF Awaits(op) THEN NoResult ELSE Undefined]
    /\ stdoutBuffer' = <<>>
    /\ stdoutChunks' = <<>>
    /\ stderrBuffer' = <<>>
    /\ events' = <<>>
    /\ outcome' = NoResult
    /\ UNCHANGED <<stderrLineBuffer, own, statusListeners>>
    /\ UNCHANGED overlapVars
    /\ UNCHANGED cacheVars
    /\ UNCHANGED <<treeVars, viewVars>>

\* child.on("close") of the process of the operation: the promise of exec
\* settles and an operation that awaits it returns or throws
CloseOp ==
    /\ proc.pc = "running"
    /\ proc.pos = Len(proc.stream)
    /\ \E code \in ExitCodes :
         LET settled == CloseHandler(code, CmdOf(apiCall.op), stdoutBuffer, stderrBuffer)
         IN  /\ outcome' = settled
             /\ proc' = [proc EXCEPT !.pc = "closed", !.code = code]
             /\ apiCall' = [apiCall EXCEPT
                              !.promise = IF ~Awaits(apiCall.op) THEN @
                                          ELSE IF settled.ok THEN Undefined
                                          ELSE settled]
    /\ UNCHANGED <<stderrLineBuffer, stderrBuffer, events, own>>
    /\ UNCHANGED <<statusListeners, stdoutBuffer, stdoutChunks>>
    /\ UNCHANGED overlapVars
    /\ UNCHANGED cacheVars
    /\ UNCHANGED <<treeVars, viewVars>>

NextOps ==
    \/ \E op \in MutatingOps : Invoke(op)
    \/ StderrDataClient
    \/ CloseOp

\* ------------------------------------------------------ the tree provider
\* The root paths of the repositories that can be opened, as sequences of
\* path segments and separators ("BSL" is a backslash, "SL" a slash): two
\* Windows paths that end in the same folder name and a POSIX path.
Paths ==
    { <<"C:", "BSL", "a", "BSL", "proj">>,
      <<"C:", "BSL", "b", "BSL", "proj">>,
      <<"SL", "c", "SL", "other">> }

RECURSIVE LastPiece(_, _)
\* path.split(sep).pop()
LastPiece(path, sep) ==
    IF \A i \in 1..Len(path) : path[i] # sep THEN path
    ELSE LastPiece(Tail(path), sep)

\* `path.split("\\").pop() || path.split("/").pop() || path`
RepositoryName(path) ==
    IF LastPiece(path, "BSL") # <<>> THEN LastPiece(path, "BSL")
    ELSE IF LastPiece(path, "SL") # <<>> THEN LastPiece(path, "SL")
    ELSE path

\* the elements of a sequence
Range(seq) == { seq[i] : i \in 1..Len(seq) }
\* Map.delete: the keys without p, in the order they had
Without(seq, p) == SelectSeq(seq, LAMBDA q : q # p)

\* A tree element: its type, the repository whose cache produced it (for a
\* repository element, its repositoryPath) and the repositoryName it carries
\* (for a stack or a branch, that of its stack; <<>> when it has none).
NoElement == [type |-> "none", origin |-> <<>>, repositoryName |-> <<>>]
\* no client
NoApi == <<>>
NoOp == [kind |-> "none", multi |-> FALSE, origin |-> <<>>, api |-> NoApi, fetched |-> {},
         children |-> {}]

\* the forest the status query of a repository returns
ForestOf(p) == [stacks |-> <<"s1">>]

\* getDefaultApi(): the first client, in both branches
getDefaultApi == IF apis = <<>> THEN NoApi ELSE apis[1]

\* getApiForStack(stack): the first client whose path ends in the
\* repositoryName of the stack, the default client otherwise
getApiForStack(element) ==
    IF /\ element.repositoryName # <<>>
       /\ \E i \in 1..Len(apis) : RepositoryName(apis[i]) = element.repositoryName
    THEN apis[CHOOSE i \in 1..Len(apis) :
                /\ RepositoryName(apis[i]) = element.repositoryName
                /\ \A j \in 1..(i - 1) : RepositoryName(apis[j]) # element.repositoryName]
    ELSE getDefaultApi

\* refresh(): every cache is cleared, the counts and the loading flags too
Refreshed ==
    /\ stackCaches' = [p \in Paths |-> Null]
    /\ repositoryStackCounts' = {}
    /\ loadingStackCounts' = {}

\* the command stack.refresh
Refresh ==
    /\ apis # <<>>
    /\ Refreshed
    /\ lastOp' = NoOp
    /\ UNCHANGED <<apis, countLoads, held, gitRepositories>>
    /\ UNCHANGED <<cacheVars, procVars, overlapVars, clientVars, viewVars>>

\* gitAPI.onDidOpenRepository for a repository the provider does not know:
\* onDidChangeRepositories finds it in gitAPI.repositories and calls
\* addRepository (a client, an Empty cache and a stack list query for the
\* new repository), then refresh()
OpenRepository(p) ==
    /\ p \notin Range(apis)
    /\ gitRepositories' = gitRepositories \cup {p}
    /\ apis' = Append(apis, p)
    /\ countLoads' = countLoads \cup {p}
    /\ Refreshed
    /\ lastOp' = NoOp
    /\ UNCHANGED held
    /\ UNCHANGED <<cacheVars, procVars, overlapVars, clientVars, viewVars>>

\* removeRepository(p), for a repository that is open no longer
RemoveRepository(p) ==
    /\ p \in Range(apis)
    /\ gitRepositories' = gitRepositories \ {p}
    /\ apis' = Without(apis, p)
    /\ stackCaches' = [stackCaches EXCEPT ![p] = Null]
    /\ repositoryStackCounts' = repositoryStackCounts \ {p}
    /\ loadingStackCounts' = loadingStackCounts \ {p}
    /\ lastOp' = NoOp
    /\ UNCHANGED <<countLoads, held>>
    /\ UNCHANGED <<cacheVars, procVars, overlapVars, clientVars, viewVars>>

\* the stack list query of loadRepositoryStackCount settles
CountLoaded(p) ==
    /\ p \in countLoads
    /\ countLoads' = countLoads \ {p}
    /\ \E ok \in BOOLEAN :
         repositoryStackCounts' = IF ok THEN repositoryStackCounts \cup {p}
                                  ELSE repositoryStackCounts
    /\ loadingStackCounts' = loadingStackCounts \ {p}
    /\ lastOp' = NoOp
    /\ UNCHANGED <<apis, stackCaches, held, gitRepositories>>
    /\ UNCHANGED <<cacheVars, procVars, overlapVars, clientVars, viewVars>>

\* a variant that shows the stacks of the first repository at the root
\* whenever a repository is open
ShowsStacksAtRootAlways(n) == n >= 1

\* `repositoryPaths.length === 1`: the root shows the stacks themselves
ShowsStacksAtRoot(n) == n = 1

\* cache.getStacks() on the cache of p, the fetch succeeding or not: the
\* cache afterwards, and whether the client was asked for the forest
CacheGetStacks(p, ok) ==
    IF stackCaches[p] # Null THEN [cache |-> stackCaches[p], fetched |-> {}]
    ELSE [cache |-> IF ok THEN ForestOf(p) ELSE Null, fetched |-> {p}]

\* the stack elements of a forest that the cache of p produced, each with
\* the repositoryName name
StackElements(forest, p, name) ==
    IF forest = Null THEN {}
    ELSE { [type |-> "stack", origin |-> p, repositoryName |-> name] :
             i \in 1..Len(forest.stacks) }

\* a variant that makes a repository element for the first repository only
RepositoryElementsFirstOnly(paths) ==
    { [type |-> "repository", origin |-> p, repositoryName |-> RepositoryName(p)] :
        p \in {paths[1]} }

\* the repository elements of the root: one for each repository path
RepositoryElements(paths) ==
    { [type |-> "repository", origin |-> p, repositoryName |-> RepositoryName(p)] :
        p \in Range(paths) }

\* getChildren() at the root
GetChildrenRoot ==
    /\ IF apis = <<>>
       THEN /\ lastOp' = [kind |-> "root", multi |-> FALSE, origin |-> <<>>,
                          api |-> NoApi, fetched |-> {}, children |-> {}]
            /\ UNCHANGED <<stackCaches, repositoryStackCounts, loadingStackCounts,
                           countLoads, held>>
       ELSE IF ShowsStacksAtRoot(Len(apis))
       THEN \E ok \in BOOLEAN :
              LET p == apis[1]
                  r == CacheGetStacks(p, ok)
                  children == StackElements(r.cache, p, <<>>)
              IN  /\ stackCaches' = [stackCaches EXCEPT ![p] = r.cache]
                  /\ held' \in {held} \cup children
                  /\ lastOp' = [kind |-> "root", multi |-> Len(apis) > 1, origin |-> p,
                                api |-> p, fetched |-> r.fetched, children |-> children]
                  /\ UNCHANGED <<repositoryStackCounts, loadingStackCounts, countLoads>>
       ELSE LET children == RepositoryElements(apis)
                toLoad == { p \in Range(apis) :
                              p \notin repositoryStackCounts /\ p \notin loadingStackCounts }
            IN  /\ loadingStackCounts' = loadingStackCounts \cup toLoad
                /\ countLoads' = countLoads \cup toLoad
                /\ held' \in {held} \cup children
                /\ lastOp' = [kind |-> "root", multi |-> TRUE, origin |-> <<>>,
                              api |-> NoApi, fetched |-> {}, children |-> children]
                /\ UNCHANGED <<stackCaches, repositoryStackCounts>>
    /\ UNCHANGED <<apis, gitRepositories>>
    /\ UNCHANGED <<cacheVars, procVars, overlapVars, clientVars, viewVars>>

\* getChildren(element) for a repository element: the stacks of its cache,
\* each with the repositoryName of the element
ExpandRepository ==
    /\ held.type = "repository"
    /\ held.origin \in Range(apis)
    /\ \E ok \in BOOLEAN :
         LET p == held.origin
             r == CacheGetStacks(p, ok)
             children == StackElements(r.cache, p, held.repositoryName)
         IN  /\ stackCaches' = [stackCaches EXCEPT ![p] = r.cache]
             /\ held' \in {held} \cup children
             /\ lastOp' = [kind |-> "expandRepository", multi |-> Len(apis) > 1,
                           origin |-> p, api |-> p, fetched |-> r.fetched,
                           children |-> children]
    /\ UNCHANGED <<apis, repositoryStackCounts, loadingStackCounts, countLoads,
                   gitRepositories>>
    /\ UNCHANGED <<cacheVars, procVars, overlapVars, clientVars, viewVars>>

\* getChildren(element) for a stack element: its branches, with the stack
ExpandStack ==
    /\ held.type = "stack"
    /\ held' = [held EXCEPT !.type = "branch"]
    /\ lastOp' = NoOp
    /\ UNCHANGED <<apis, stackCaches, repositoryStackCounts, loadingStackCounts,
                   countLoads, gitRepositories>>
    /\ UNCHANGED <<cacheVars, procVars, overlapVars, clientVars, viewVars>>

\* the commands that take a stack element or a branch element and run one
\* client operation on the client getApiForStack gives
ElementOps ==
    { "newBranch", "sync", "update", "pull", "push", "delete", "cleanup",
      "removeBranchFromStack" }
\* the element types each command is offered for
TypesOf(op) ==
    IF op = "newBranch" THEN {"stack", "branch"}
    ELSE IF op = "removeBranchFromStack" THEN {"branch"}
    ELSE {"stack"}

\* newBranch .. removeBranchFromStack: the operation on the client, then
\* refresh() when it succeeded
ElementOp(op) ==
    /\ held.type \in TypesOf(op)
    /\ LET api == getApiForStack(held)
       IN  /\ lastOp' = [kind |-> op, multi |-> Len(apis) > 1, origin |-> held.origin,
                         api |-> api, fetched |-> {}, children |-> {}]
           /\ \E ok \in BOOLEAN :
                IF api # NoApi /\ ok
                THEN Refreshed
                ELSE UNCHANGED <<stackCaches, repositoryStackCounts, loadingStackCounts>>
    /\ UNCHANGED <<apis, countLoads, held, gitRepositories>>
    /\ UNCHANGED <<cacheVars, procVars, overlapVars, clientVars, viewVars>>

\* switchTo(branch), for the branch of a branch element or of a stack
\* element: the operation on the default client, without refresh()
SwitchTo ==
    /\ held.type \in {"stack", "branch"}
    /\ lastOp' = [kind |-> "switchTo", multi |-> Len(apis) > 1, origin |-> held.origin,
                  api |-> getDefaultApi, fetched |-> {}, children |-> {}]
    /\ UNCHANGED <<apis, stackCaches, repositoryStackCounts, loadingStackCounts,
                   countLoads, held, gitRepositories>>
    /\ UNCHANGED <<cacheVars, procVars, overlapVars, clientVars, viewVars>>

\* MultiRepoStackTreeDataProvider.getChildren() at the root with more than
\* one repository: a stack summaries query for each repository, whose length
\* is the stack count of the repository root element
AggregatedRoot ==
    /\ Len(apis) > 1
    /\ held' \in {held} \cup RepositoryElements(apis)
    /\ lastOp' = [kind |-> "aggregatedRoot", multi |-> TRUE, origin |-> <<>>,
                  api |-> NoApi, fetched |-> {}, children |-> RepositoryElements(apis)]
    /\ UNCHANGED <<apis, stackCaches, repositoryStackCounts, loadingStackCounts,
                   countLoads, gitRepositories>>
    /\ UNCHANGED <<cacheVars, procVars, overlapVars, clientVars, viewVars>>

\* The tree that is shown: the elements getChildren has returned for the
\* root and for the repository elements whose forest is in the cache. A
\* stack element is told by its repository and its place in the forest.
ShownElements ==
    (IF ShowsStacksAtRoot(Len(apis)) THEN {}
     ELSE { [type |-> "repository", origin |-> p, name |-> RepositoryName(p)] :
              p \in Range(apis) })
    \cup UNION { IF stackCaches[p] = Null THEN {}
                 ELSE { [type |-> "stack", origin |-> p, index |-> i,
                         name |-> stackCaches[p].stacks[i]] :
                          i \in 1..Len(stackCaches[p].stacks) } :
                 p \in Range(apis) }

\* getTreeItem(element).id: `repo-${element.repositoryPath}` for a repository
\* element, element.stack.name for a stack element
TreeItemId(element) ==
    IF element.type = "repository" THEN <<"repo-">> \o element.origin
    ELSE <<element.name>>

NextTree ==
    \/ \E p \in Paths : OpenRepository(p)
    \/ \E p \in Paths : RemoveRepository(p)
    \/ \E p \in Paths : CountLoaded(p)
    \/ Refresh
    \/ GetChildrenRoot
    \/ AggregatedRoot
    \/ ExpandRepository
    \/ ExpandStack
    \/ \E op \in ElementOps : ElementOp(op)
    \/ SwitchTo

\* ---------------------------------------- repositories that are closed
\* onDidChangeRepositories, for the repositories gitAPI.repositories holds
\* when it runs: each one the provider has no client for is added, with a
\* refresh(). (Every repository the git extension has open was added when it
\* was opened, so that at most one is new.)
OnDidChangeRepositories(repos) ==
    LET unknown == { q \in repos : q \notin Range(apis) } IN
    IF unknown = {}
    THEN UNCHANGED <<apis, stackCaches, repositoryStackCounts, loadingStackCounts,
                     countLoads>>
    ELSE \E q \in unknown :
           /\ unknown = {q}
           /\ apis' = Append(apis, q)
           /\ countLoads' = countLoads \cup {q}
           /\ Refreshed

\* gitAPI.onDidCloseRepository for p: the handler is onDidChangeRepositories
CloseRepository(p) ==
    /\ p \in gitRepositories
    /\ gitRepositories' = gitRepositories \ {p}
    /\ OnDidChangeRepositories(gitRepositories \ {p})
    /\ lastOp' = NoOp
    /\ UNCHANGED held
    /\ UNCHANGED <<cacheVars, procVars, overlapVars, clientVars, viewVars>>

\* gitAPI.onDidOpenRepository for a repository that was closed and that the
\* provider still has a client for
ReopenRepository(p) ==
    /\ p \in Range(apis) \ gitRepositories
    /\ gitRepositories' = gitRepositories \cup {p}
    /\ OnDidChangeRepositories(gitRepositories \cup {p})
    /\ lastOp' = NoOp
    /\ UNCHANGED held
    /\ UNCHANGED <<cacheVars, procVars, overlapVars, clientVars, viewVars>>

NextRepositories ==
    \/ \E p \in Paths : OpenRepository(p)
    \/ \E p \in Paths : CloseRepository(p)
    \/ \E p \in Paths : ReopenRepository(p)
    \/ GetChildrenRoot
    \/ ExpandRepository
    \/ ExpandStack
    \/ \E op \in ElementOps : ElementOp(op)
    \/ SwitchTo

\* ------------------------------------------- a command of the provider
\* A command of the provider that calls one mutating operation of the client
\* of a repository and then refresh(); it is named by the operation. The
\* cache of the repository is the cache above, read by getStacks calls while
\* the command runs. refreshed: refresh() has run; exited: the process of
\* the operation has closed; invocationsAtExit: how many status queries had
\* been started on the cache by then.
NoCommand == [op |-> "none", refreshed |-> FALSE, exited |-> FALSE, invocationsAtExit |-> 0]

\* the commands that call this.refresh() after the operation: all but
\* switchTo
Refreshes(op) == op # "switchToBranch"

\* refresh() as the cache of the repository sees it: clearCache()
RefreshCache ==
    /\ clearStreak < MaxClears
    /\ cache' = Null
    /\ clearStreak' = clearStreak + 1
    /\ calls' = [c \in Calls |->
                   IF calls[c].pc = "awaiting"
                   THEN [calls[c] EXCEPT !.clearedDuring = TRUE]
                   ELSE calls[c]]
    /\ UNCHANGED invocations

\* the command up to its `await api.<op>(...)`: exec spawns the process. An
\* operation that does not await exec has returned by then, and the command
\* goes on to refresh() without waiting for the process
CommandStart(op) ==
    /\ proc.pc # "running"
    /\ proc.no < MaxInvocations
    /\ proc' = [pc |-> "running", no |-> proc.no + 1, stream |-> <<>>, pos |-> 0,
                code |-> -1]
    /\ apiCall' = [op |-> op, promise |-> IF Awaits(op) THEN NoResult ELSE Undefined]
    /\ stdoutBuffer' = <<>>
    /\ stdoutChunks' = <<>>
    /\ stderrBuffer' = <<>>
    /\ events' = <<>>
    /\ outcome' = NoResult
    /\ IF ~Awaits(op) /\ Refreshes(op)
       THEN /\ RefreshCache
            /\ command' = [NoCommand EXCEPT !.op = op, !.refreshed = TRUE]
       ELSE /\ UNCHANGED cacheVars
            /\ command' = [NoCommand EXCEPT !.op = op]
    /\ UNCHANGED <<stderrLineBuffer, own, statusListeners>>
    /\ UNCHANGED <<lookup, branchChildren, multiVars>>
    /\ UNCHANGED <<overlapVars, treeVars>>

\* child.on("close") of the process of the operation: the promise of exec
\* settles; a command that awaits the operation resumes, and calls refresh()
\* when the operation did not throw
CommandClose ==
    /\ proc.pc = "running"
    /\ command.op # "none"
    /\ \E code \in ExitCodes :
         LET settled == CloseHandler(code, CmdOf(apiCall.op), stdoutBuffer, stderrBuffer)
         IN  /\ outcome' = settled
             /\ proc' = [proc EXCEPT !.pc = "closed", !.code = code]
             /\ apiCall' = [apiCall EXCEPT
                              !.promise = IF ~Awaits(apiCall.op) THEN @
                                          ELSE IF settled.ok THEN Undefined
                                          ELSE settled]
             /\ IF Awaits(command.op) /\ settled.ok /\ Refreshes(command.op)
                THEN /\ RefreshCache
                     /\ command' = [command EXCEPT !.refreshed = TRUE, !.exited = TRUE,
                                                   !.invocationsAtExit = invocations]
                ELSE /\ UNCHANGED cacheVars
                     /\ command' = [command EXCEPT !.exited = TRUE,
                                                   !.invocationsAtExit = invocations]
    /\ UNCHANGED <<stderrLineBuffer, stderrBuffer, events, own>>
    /\ UNCHANGED <<statusListeners, stdoutBuffer, stdoutChunks>>
    /\ UNCHANGED <<lookup, branchChildren, multiVars>>
    /\ UNCHANGED <<overlapVars, treeVars>>

NextMutate ==
    \/ \E op \in MutatingOps : CommandStart(op)
    \/ CommandClose
    \/ \E c \in Calls : GetStacks(c)
    \/ \E c \in Calls : Close(c)

\* ------------------------------------------------- the lookups by name
\* the names a caller can ask for; the forests hold "s1" at most, and every
\* stack of a forest has the one branch "b1", on which "c1" is stacked
StackNames == {"s1", "s2"}
BranchNames == {"b1", "b2", "c1"}
BranchesOf(stackName) ==
    << [name |-> "b1", children |-> << [name |-> "c1", children |-> <<>>] >>] >>

\* the value `undefined`
UndefinedValue == [undefined |-> TRUE]

\* A lookup: getStackByName(stackName) or getBranchByName(stackName,
\* branchName), where it stands, the getStacks call it awaits (0: none) and
\* what it returned or threw
NoLookup ==
    [kind |-> "none", pc |-> "idle", call |-> 0, stackName |-> "", branchName |-> "",
     result |-> NoResult]
Lookups ==
    { [NoLookup EXCEPT !.kind = "getStackByName", !.stackName = sn] : sn \in StackNames }
    \cup { [NoLookup EXCEPT !.kind = "getBranchByName", !.stackName = sn, !.branchName = bn] :
             sn \in StackNames, bn \in BranchNames }

\* `this.cache?.find((stack) => stack.name === name)`
FindStack(forest, name) ==
    IF forest = Null THEN UndefinedValue
    ELSE IF \E i \in 1..Len(forest.stacks) : forest.stacks[i] = name
         THEN [name |-> name, branches |-> BranchesOf(name)]
         ELSE UndefinedValue

\* `stack?.branches.find((branch) => branch.name === branchName)`
FindBranch(stack, name) ==
    IF stack = UndefinedValue THEN UndefinedValue
    ELSE IF \E i \in 1..Len(stack.branches) : stack.branches[i].name = name
         THEN stack.branches[CHOOSE i \in 1..Len(stack.branches) :
                               /\ stack.branches[i].name = name
                               /\ \A j \in 1..(i - 1) : stack.branches[j].name # name]
         ELSE UndefinedValue

\* a variant that throws when there is no stack or no branch of the name
ReturnedOrThrow(forest, l) ==
    LET stack == FindStack(forest, l.stackName)
        value == IF l.kind = "getStackByName" THEN stack ELSE FindBranch(stack, l.branchName)
    IN  IF value = UndefinedValue
        THEN [ok |-> FALSE, error |-> [name |-> "NotFound"]]
        ELSE [ok |-> TRUE, value |-> value]

\* what the lookup l returns for the cache value it finds after its
\* `if (!this.cache) { await this.getStacks(); }`
Returned(forest, l) ==
    LET stack == FindStack(forest, l.stackName)
    IN  [ok |-> TRUE,
         value |-> IF l.kind = "getStackByName" THEN stack
                   ELSE FindBranch(stack, l.branchName)]

\* getStackByName / getBranchByName, up to the await of getStacks() or to
\* the return
Lookup(c, l) ==
    /\ lookup.pc # "awaiting"
    /\ c = Issued + 1
    /\ IF Falsy(cache)
       THEN /\ StartFetch(c, "getStacks")
            /\ lookup' = [l EXCEPT !.pc = "awaiting", !.call = c]
       ELSE /\ lookup' = [l EXCEPT !.pc = "done", !.result = Returned(cache, l)]
            /\ UNCHANGED <<cache, calls, invocations>>
    /\ clearStreak' = 0
    /\ UNCHANGED <<command, branchChildren, multiVars>>
    /\ UNCHANGED <<procVars, overlapVars, clientVars, treeVars>>

\* a variant in which the lookup resumes in a later task and finds the cache
\* cleared when clearCache() ran during the fetch
LookupCloseAfterClear ==
    /\ lookup.pc = "awaiting"
    /\ \E code \in ExitCodes, out \in StdoutTexts, err \in StderrTexts :
         LET c == lookup.call
             s == execJson(CloseHandler(code, StatusCmd, out, err), calls[c].inv)
             r == AwaitAssign(cache, s)
             seen == IF calls[c].clearedDuring THEN Null ELSE r.cache
         IN  /\ cache' = seen
             /\ calls' = [calls EXCEPT ![c].pc = "done", ![c].afterClears = FALSE,
                                       ![c].settled = s, ![c].result = r.result]
             /\ lookup' = [lookup EXCEPT
                             !.pc = "done",
                             !.result = IF r.result.ok THEN Returned(seen, lookup)
                                        ELSE r.result]
    /\ clearStreak' = 0
    /\ UNCHANGED invocations
    /\ UNCHANGED <<command, branchChildren, multiVars>>
    /\ UNCHANGED <<procVars, overlapVars, clientVars, treeVars>>

\* the status process of the getStacks call of the lookup closes: getStacks
\* resumes after its await, assigns the cache and returns, and the lookup
\* resumes after its own await in the same run of the microtask queue: no
\* other handler, and so no clearCache(), runs in between
LookupClose ==
    /\ lookup.pc = "awaiting"
    /\ \E code \in ExitCodes, out \in StdoutTexts, err \in StderrTexts :
         LET c == lookup.call
             s == execJson(CloseHandler(code, StatusCmd, out, err), calls[c].inv)
             r == AwaitAssign(cache, s)
         IN  /\ cache' = r.cache
             /\ calls' = [calls EXCEPT ![c].pc = "done", ![c].afterClears = FALSE,
                                       ![c].settled = s, ![c].result = r.result]
             /\ lookup' = [lookup EXCEPT
                             !.pc = "done",
                             !.result = IF r.result.ok THEN Returned(r.cache, lookup)
                                        ELSE r.result]
    /\ clearStreak' = 0
    /\ UNCHANGED invocations
    /\ UNCHANGED <<command, branchChildren, multiVars>>
    /\ UNCHANGED <<procVars, overlapVars, clientVars, treeVars>>

NextLookup ==
    \/ \E c \in Calls, l \in Lookups : Lookup(c, l)
    \/ LookupClose
    \/ \E c \in Calls : GetStacks(c)
    \/ \E c \in Calls : c # lookup.call /\ Close(c)
    \/ ClearCache

\* ------------------------------------------- the children of a branch
MaxBehind == 2
\* the commit counts of the status document
Counts == 0..MaxBehind

\* RemoteTrackingBranchStatus | null (name and ahead are left out)
RemoteTrackingBranches == {Null} \cup [exists : BOOLEAN, behind : Counts]
\* ParentBranchStatus (name and ahead are left out)
ParentStatuses == [behind : Counts]
\* Branch, for the source branch of a stack
SourceBranches == [exists : {TRUE}, remoteTrackingBranch : RemoteTrackingBranches]
\* GitHubPullRequest | null (title and url are left out)
PullRequests == {Null, [number |-> 1]}
\* the branches stacked on a branch of the chain: leaves, told apart by name
ChildBranch(name) ==
    [name |-> name, exists |-> TRUE, remoteTrackingBranch |-> Null,
     parent |-> [behind |-> 0], pullRequest |-> Null, children |-> <<>>]
ChildLists ==
    { <<>>, << ChildBranch("c1") >>,
      << ChildBranch("c1"), ChildBranch("c2") >>,
      << ChildBranch("c2"), ChildBranch("c1") >> }
\* StackBranch of the given name; the status document is parsed and not
\* validated, and its data model has `parent: ParentBranchStatus | null`
StackBranches(name) ==
    [name : {name}, exists : BOOLEAN, remoteTrackingBranch : RemoteTrackingBranches,
     parent : {Null} \cup ParentStatuses, pullRequest : PullRequests,
     children : ChildLists]
\* the first branch of a chain of two: without pull request and children
PlainBranches(name) ==
    { b \in StackBranches(name) :
        b.exists /\ b.parent = [behind |-> 0] /\ b.pullRequest = Null /\ b.children = <<>> }
\* Stack: the source branch and a chain of one or two branches
Stacks ==
    [sourceBranch : SourceBranches,
     branches : { <<b>> : b \in StackBranches("b1") } \cup
                { <<a, b>> : a \in PlainBranches("b1"), b \in StackBranches("b2") }]

\* the element whose children were asked for last (none, a stack or the
\* index-th branch of the stack), what canCompareBranchToParent returned for
\* it, and the children returned or the exception thrown
NoBranchChildren ==
    [stack |-> Null, element |-> "none", index |-> 0, compared |-> FALSE,
     treeItems |-> <<>>, error |-> Null]

\* a variant that looks at the branch alone
canCompareIgnoringRemote(branch) == branch.exists

\* canCompareBranchToParent(branch)
canCompareBranchToParent(branch) ==
    /\ branch.exists
    /\ \/ branch.remoteTrackingBranch = Null
       \/ branch.remoteTrackingBranch.exists

\* the branch a branch of the stack is compared to: the branch before it, or
\* the source branch for the first one
ParentBranch(stack, i) ==
    IF i > 1 THEN stack.branches[i - 1] ELSE stack.sourceBranch

\* getChildren(element) for a stack element: `stackDetails.branches.map(...)`
StackTreeItems(stack) ==
    [k \in 1..Len(stack.branches) |-> [type |-> "branch", branch |-> stack.branches[k]]]

\* `element.branch.children.map(...)`
ChildBranchItems(branch) ==
    [k \in 1..Len(branch.children) |-> [type |-> "branch", branch |-> branch.children[k]]]

\* the exception of a property read on null
TypeError == [name |-> "TypeError"]

\* a variant that puts the child branches first
BranchTreeItemsChildrenFirst(stack, i) ==
    LET branch == stack.branches[i] IN
    IF canCompareBranchToParent(branch) /\ branch.parent = Null
    THEN [ok |-> FALSE, error |-> TypeError]
    ELSE [ok |-> TRUE,
          value |->
            ChildBranchItems(branch)
            \o (IF canCompareBranchToParent(branch)
                THEN << [type |-> "branchParentStatus", behindParent |-> branch.parent.behind] >>
                     \o (IF branch.pullRequest # Null
                         THEN << [type |-> "pullRequest", pullRequest |-> branch.pullRequest] >>
                         ELSE <<>>)
                ELSE <<>>)]

\* getChildren(element) for the branch element of the i-th branch of the
\* stack. When the branch can be compared: `element.branch.parent?.ahead ?? 0`
\* is 0 for a null parent, `element.branch.parent.behind ?? 0` throws for
\* one; else the parent status item with that behindParent, then the pull
\* request item when the branch has a pull request. Then, in either case,
\* the child branches
BranchTreeItems(stack, i) ==
    LET branch == stack.branches[i] IN
    IF canCompareBranchToParent(branch) /\ branch.parent = Null
    THEN [ok |-> FALSE, error |-> TypeError]
    ELSE [ok |-> TRUE,
          value |->
            (IF canCompareBranchToParent(branch)
             THEN << [type |-> "branchParentStatus", behindParent |-> branch.parent.behind] >>
                  \o (IF branch.pullRequest # Null
                      THEN << [type |-> "pullRequest", pullRequest |-> branch.pullRequest] >>
                      ELSE <<>>)
             ELSE <<>>)
            \o ChildBranchItems(branch)]

\* the status query returns a stack and the tree shows it
LoadStack ==
    /\ branchChildren.stack = Null
    /\ \E stack \in Stacks :
         branchChildren' = [NoBranchChildren EXCEPT !.stack = stack]
    /\ UNCHANGED <<command, lookup, multiVars>>
    /\ UNCHANGED <<cacheVars, procVars, overlapVars, clientVars, treeVars>>

\* the stack element is expanded
ExpandStackElement ==
    /\ branchChildren.stack # Null
    /\ branchChildren' = [NoBranchChildren EXCEPT
                            !.stack = branchChildren.stack,
                            !.element = "stack",
                            !.treeItems = StackTreeItems(branchChildren.stack)]
    /\ UNCHANGED <<command, lookup, multiVars>>
    /\ UNCHANGED <<cacheVars, procVars, overlapVars, clientVars, treeVars>>

\* the branch element of the i-th branch is expanded
ExpandBranch ==
    /\ branchChildren.stack # Null
    /\ \E i \in 1..Len(branchChildren.stack.branches) :
         \A r \in {BranchTreeItems(branchChildren.stack, i)} :
           branchChildren' =
             [stack |-> branchChildren.stack, element |-> "branch", index |-> i,
              compared |-> canCompareBranchToParent(branchChildren.stack.branches[i]),
              treeItems |-> IF r.ok THEN r.value ELSE <<>>,
              error |-> IF r.ok THEN Null ELSE r.error]
    /\ UNCHANGED <<command, lookup, multiVars>>
    /\ UNCHANGED <<cacheVars, procVars, overlapVars, clientVars, treeVars>>

NextBranch ==
    \/ LoadStack
    \/ ExpandStackElement
    \/ ExpandBranch

\* --------------------------------------------- the stack count queries
\* how many stack list queries may run for one repository at a time
MaxCountLoads == 2

NoCountLoads ==
    [fresh |-> [p \in Paths |-> 0], stale |-> [p \in Paths |-> 0], staleCounts |-> {}]

\* the stack list queries of repository p that are running
LoadsOf(p) == stackCountLoads.fresh[p] + stackCountLoads.stale[p]

\* loadRepositoryStackCount(p) up to its await, for each p of a set of
\* registered repositories: nothing when the loading flag of p is set; else
\* the flag is set and the stack list query starts
StartCountLoads(ps, loading, loads) ==
    [loading |-> loading \cup ps,
     loads |-> [loads EXCEPT
                  !.fresh = [p \in Paths |-> IF p \in ps /\ p \notin loading
                                             THEN @[p] + 1 ELSE @[p]]]]

\* refresh(), called by the command stack.refresh and by every command whose
\* operation succeeded: the caches, the counts and the loading flags are
\* cleared; the queries that are running go on
RefreshCounts ==
    /\ apis # <<>>
    /\ Refreshed
    /\ stackCountLoads' =
         [fresh |-> [p \in Paths |-> 0],
          stale |-> [p \in Paths |-> LoadsOf(p)],
          staleCounts |-> {}]
    /\ UNCHANGED <<apis, countLoads, held, lastOp, gitRepositories>>
    /\ UNCHANGED <<command, lookup, branchChildren, aggregated>>
    /\ UNCHANGED <<cacheVars, procVars, overlapVars, clientVars>>

\* addRepository(p, name, api): the client and a new cache are registered
\* and loadRepositoryStackCount(p) is called
AddRepository(p) ==
    /\ p \notin Range(apis)
    /\ LoadsOf(p) < MaxCountLoads
    /\ apis' = Append(apis, p)
    /\ stackCaches' = [stackCaches EXCEPT ![p] = Null]
    /\ \A r \in {StartCountLoads({p}, loadingStackCounts, stackCountLoads)} :
         /\ loadingStackCounts' = r.loading
         /\ stackCountLoads' = r.loads
    /\ countLoads' = countLoads \cup {p}
    /\ UNCHANGED <<repositoryStackCounts, held, lastOp, gitRepositories>>
    /\ UNCHANGED <<command, lookup, branchChildren, aggregated>>
    /\ UNCHANGED <<cacheVars, procVars, overlapVars, clientVars>>

\* removeRepository(p): the client, the cache, the count and the loading
\* flag of p are deleted; a query that is running goes on
RemoveRepositoryCounts(p) ==
    /\ p \in Range(apis)
    /\ apis' = Without(apis, p)
    /\ stackCaches' = [stackCaches EXCEPT ![p] = Null]
    /\ repositoryStackCounts' = repositoryStackCounts \ {p}
    /\ loadingStackCounts' = loadingStackCounts \ {p}
    /\ stackCountLoads' = [stackCountLoads EXCEPT !.staleCounts = @ \ {p}]
    /\ UNCHANGED <<countLoads, held, lastOp, gitRepositories>>
    /\ UNCHANGED <<command, lookup, branchChildren, aggregated>>
    /\ UNCHANGED <<cacheVars, procVars, overlapVars, clientVars>>

\* getChildren() at the root with more than one repository, as the counts
\* see it: loadRepositoryStackCount(p) for each repository that has neither
\* a count nor the loading flag
RootCountLoads ==
    /\ Len(apis) > 1
    /\ LET toLoad == { p \in Range(apis) :
                         p \notin repositoryStackCounts /\ p \notin loadingStackCounts }
       IN  /\ \A p \in toLoad : LoadsOf(p) < MaxCountLoads
           /\ \A r \in {StartCountLoads(toLoad, loadingStackCounts, stackCountLoads)} :
                /\ loadingStackCounts' = r.loading
                /\ stackCountLoads' = r.loads
           /\ countLoads' = countLoads \cup toLoad
    /\ UNCHANGED <<apis, stackCaches, repositoryStackCounts, held, lastOp, gitRepositories>>
    /\ UNCHANGED <<command, lookup, branchChildren, aggregated>>
    /\ UNCHANGED <<cacheVars, procVars, overlapVars, clientVars>>

\* a stack list query of repository p settles and loadRepositoryStackCount
\* resumes: the count is set when the query succeeded, nothing is when it
\* failed, and the loading flag of p is deleted in either case. stale: the
\* query was started before the last refresh()
CountLoadSettled(p, stale) ==
    /\ IF stale THEN stackCountLoads.stale[p] > 0 ELSE stackCountLoads.fresh[p] > 0
    /\ \E ok \in BOOLEAN :
         /\ repositoryStackCounts' = IF ok THEN repositoryStackCounts \cup {p}
                                     ELSE repositoryStackCounts
         /\ stackCountLoads' =
              [fresh |-> IF stale THEN stackCountLoads.fresh
                         ELSE [stackCountLoads.fresh EXCEPT ![p] = @ - 1],
               stale |-> IF stale THEN [stackCountLoads.stale EXCEPT ![p] = @ - 1]
                         ELSE stackCountLoads.stale,
               staleCounts |-> IF ~ok THEN stackCountLoads.staleCounts
                               ELSE IF stale THEN stackCountLoads.staleCounts \cup {p}
                               ELSE stackCountLoads.staleCounts \ {p}]
    /\ loadingStackCounts' = loadingStackCounts \ {p}
    /\ countLoads' = IF LoadsOf(p) > 1 THEN countLoads ELSE countLoads \ {p}
    /\ UNCHANGED <<apis, stackCaches, held, lastOp, gitRepositories>>
    /\ UNCHANGED <<command, lookup, branchChildren, aggregated>>
    /\ UNCHANGED <<cacheVars, procVars, overlapVars, clientVars>>

NextCounts ==
    \/ \E p \in Paths : AddRepository(p)
    \/ \E p \in Paths : RemoveRepositoryCounts(p)
    \/ RefreshCounts
    \/ RootCountLoads
    \/ \E p \in Paths, stale \in BOOLEAN : CountLoadSettled(p, stale)

\* ------------------------------------------- the aggregating provider
\* the most stacks a stack summaries query reports
MaxSummaries == 2

\* MultiRepoStackTreeDataProvider: its repositories (the repository paths,
\* in the order of this.repositories) and its root listing: where it stands
\* (idle, awaiting a stack summaries query, done, failed), which branch of
\* getChildren it took, the entry the loop is at and the repository read from
\* it, the roots pushed so far, the queries made with their outcomes, and
\* whether this.repositories was changed while the listing ran
NoAggregated ==
    [repositories |-> <<>>, pc |-> "idle", kind |-> "none", index |-> 0,
     current |-> <<>>, roots |-> <<>>, queried |-> <<>>, changed |-> FALSE]

\* the repository root element of repository p with the stack count n
RepositoryRoot(p, n) ==
    [type |-> "repositoryRoot", name |-> RepositoryName(p), provider |-> p,
     stackCount |-> n]

\* MultiRepoStackTreeDataProvider.addRepository: push
AggregatedAdd(p) ==
    /\ p \notin Range(aggregated.repositories)
    /\ aggregated' = [aggregated EXCEPT
                        !.repositories = Append(@, p),
                        !.changed = @ \/ aggregated.pc = "awaiting"]
    /\ UNCHANGED <<command, lookup, branchChildren, stackCountLoads>>
    /\ UNCHANGED <<cacheVars, procVars, overlapVars, clientVars, treeVars>>

\* MultiRepoStackTreeDataProvider.removeRepository: splice
AggregatedRemove(p) ==
    /\ p \in Range(aggregated.repositories)
    /\ aggregated' = [aggregated EXCEPT
                        !.repositories = Without(@, p),
                        !.changed = @ \/ aggregated.pc = "awaiting"]
    /\ UNCHANGED <<command, lookup, branchChildren, stackCountLoads>>
    /\ UNCHANGED <<cacheVars, procVars, overlapVars, clientVars, treeVars>>

\* getChildren() of the aggregating provider at the root, up to its first
\* await or its return: [] without repositories, the root listing of the
\* only provider with one, the loop over this.repositories otherwise
AggregatedRootStart ==
    /\ aggregated.pc # "awaiting"
    /\ aggregated' =
         IF aggregated.repositories = <<>>
         THEN [NoAggregated EXCEPT !.pc = "done", !.kind = "empty"]
         ELSE IF Len(aggregated.repositories) = 1
         THEN [NoAggregated EXCEPT !.repositories = aggregated.repositories,
                                   !.pc = "done", !.kind = "single"]
         ELSE [NoAggregated EXCEPT !.repositories = aggregated.repositories,
                                   !.pc = "awaiting", !.kind = "multi", !.index = 1,
                                   !.current = aggregated.repositories[1]]
    /\ UNCHANGED <<command, lookup, branchChildren, stackCountLoads>>
    /\ UNCHANGED <<cacheVars, procVars, overlapVars, clientVars, treeVars>>

\* what the loop does once the query of the current repository has settled,
\* in a variant that lets the rejection of a query reject the listing
AfterSummariesRethrow(a, ok, n) ==
    LET roots == Append(a.roots, RepositoryRoot(a.current, n))
        queried == Append(a.queried, [path |-> a.current, ok |-> ok, n |-> n])
        next == a.index + 1
    IN  IF ~ok
        THEN [a EXCEPT !.pc = "failed", !.queried = queried]
        ELSE IF next <= Len(a.repositories)
        THEN [a EXCEPT !.roots = roots, !.queried = queried, !.index = next,
                       !.current = a.repositories[next]]
        ELSE [a EXCEPT !.roots = roots, !.queried = queried, !.index = next,
                       !.pc = "done"]

\* what the loop does once the query of the current repository has settled:
\* a root with summaries.length is pushed when it resolved, a root with 0 in
\* the catch block when it rejected; then the iterator of this.repositories
\* goes to the next entry of the array as it is now, or the roots are
\* returned
AfterSummaries(a, ok, n) ==
    LET roots == Append(a.roots, RepositoryRoot(a.current, IF ok THEN n ELSE 0))
        queried == Append(a.queried, [path |-> a.current, ok |-> ok, n |-> n])
        next == a.index + 1
    IN  IF next <= Len(a.repositories)
        THEN [a EXCEPT !.roots = roots, !.queried = queried, !.index = next,
                       !.current = a.repositories[next]]
        ELSE [a EXCEPT !.roots = roots, !.queried = queried, !.index = next,
                       !.pc = "done"]

\* the stack summaries query of the current repository settles
SummariesSettled ==
    /\ aggregated.pc = "awaiting"
    /\ \E ok \in BOOLEAN, n \in 0..MaxSummaries :
         /\ ~ok => n = 0
         /\ aggregated' = AfterSummaries(aggregated, ok, n)
    /\ UNCHANGED <<command, lookup, branchChildren, stackCountLoads>>
    /\ UNCHANGED <<cacheVars, procVars, overlapVars, clientVars, treeVars>>

NextAggregated ==
    \/ \E p \in Paths : AggregatedAdd(p)
    \/ \E p \in Paths : AggregatedRemove(p)
    \/ AggregatedRootStart
    \/ SummariesSettled

Init ==
    /\ cache = Null
    /\ calls = [c \in Calls |-> IdleCall]
    /\ invocations = 0
    /\ clearStreak = 0
    /\ stderrLineBuffer = <<>>
    /\ proc = NoProc
    /\ stderrBuffer = <<>>
    /\ events = <<>>
    /\ own = [buffer |-> <<>>, events |-> <<>>]
    /\ outcome = NoResult
    /\ other = NoOther
    /\ statusListeners = <<>>
    /\ stdoutBuffer = <<>>
    /\ stdoutChunks = <<>>
    /\ apiCall = NoCall
    /\ apis = <<>>
    /\ stackCaches = [p \in Paths |-> Null]
    /\ repositoryStackCounts = {}
    /\ loadingStackCounts = {}
    /\ countLoads = {}
    /\ held = NoElement
    /\ lastOp = NoOp
    /\ gitRepositories = {}
    /\ command = NoCommand
    /\ lookup = NoLookup
    /\ branchChildren = NoBranchChildren
    /\ stackCountLoads = NoCountLoads
    /\ aggregated = NoAggregated

Next ==
    \/ \E c \in Calls : GetStacks(c)
    \/ \E c \in Calls : RefreshStacks(c)
    \/ \E c \in Calls : Close(c)
    \/ ClearCache

Spec == Init /\ [][Next]_vars

SpecExec == Init /\ [][NextExec]_vars

SpecOverlap == Init /\ [][NextOverlap]_vars

SpecClient == Init /\ [][NextClient]_vars

SpecLines == Init /\ [][NextLines]_vars

SpecOps == Init /\ [][NextOps]_vars

SpecTree == Init /\ [][NextTree]_vars

SpecRepositories == Init /\ [][NextRepositories]_vars

SpecMutate == Init /\ [][NextMutate]_vars

SpecBranch == Init /\ [][NextBranch]_vars

SpecLookup == Init /\ [][NextLookup]_vars

SpecCounts == Init /\ [][NextCounts]_vars

SpecAggregated == Init /\ [][NextAggregated]_vars

\* ------------------------------------------------------ steps of a call
\* call c is issued in this step
Started(c) == calls[c].pc = "idle" /\ calls'[c].pc # "idle"
\* the fetch of call c settles and the call returns or throws in this step
Completed(c) == calls[c].pc = "awaiting" /\ calls'[c].pc = "done"
\* clearCache() runs in this step
ClearStep == clearStreak' = clearStreak + 1

\* ------------------------------------------------- steps of an invocation
\* a stderr chunk of the running process is handled in this step
DataStep == proc.pc = "running" /\ proc'.pc = "running" /\ proc'.pos > proc.pos
\* the running process closes in this step
CloseStep == proc.pc = "running" /\ proc'.pc = "closed"
\* the bytes of the chunk
Arrived == SubSeq(proc.stream, proc.pos + 1, proc'.pos)
\* what the step adds to the log and tells the listeners
NewEvents == SubSeq(events', Len(events) + 1, Len(events'))
\* the lines the chunk completes, blank ones left out: every piece of the
\* buffered text followed by a line terminator
CompleteLines ==
    LET pieces == Split(stderrLineBuffer \o toString(Arrived))
    IN  SelectSeq(SubSeq(pieces, 1, Len(pieces) - 1), LAMBDA l : trim(l) # <<>>)

RECURSIVE LeadingCalls(_)
\* how many listener calls the sequence begins with
LeadingCalls(evs) ==
    IF evs = <<>> \/ Head(evs).kind # "status" THEN 0
    ELSE 1 + LeadingCalls(Tail(evs))

RECURSIVE GroupsOf(_)
\* the events cut into groups: an entry and the listener calls that follow it
GroupsOf(evs) ==
    IF evs = <<>> THEN <<>>
    ELSE LET n == LeadingCalls(Tail(evs))
         IN  << [log |-> Head(evs), calls |-> SubSeq(evs, 2, 1 + n)] >>
             \o GroupsOf(SubSeq(evs, 2 + n, Len(evs)))

\* The events of a chunk against the lines it completes: the lines, the
\* groups of events, and whether there is one group for each line, each
\* group beginning with a log entry.
Decoded ==
    LET g == GroupsOf(NewEvents)
        ls == CompleteLines
    IN  [lines |-> ls, groups |-> g,
         aligned |-> /\ Len(g) = Len(ls)
                     /\ \A k \in 1..Len(g) : g[k].log.kind = "log"]

\* every registered listener called once, in registration order, with msg
CallsInOrder(msg) ==
    [i \in 1..Len(statusListeners) |-> [kind |-> "status", listener |-> i, text |-> msg]]

\* ------------------------------------------------------------------ claims

\* C1: getStacks() calls issued while the cache is Empty and a fetch is
\* still running do not invoke the client again: at no time is more than
\* one fetch started by getStacks() in flight.
C1_SingleFlight ==
    Cardinality({c \in Calls : calls[c].pc = "awaiting" /\ calls[c].op = "getStacks"}) <= 1

\* C2: concurrent getStacks() calls started on an Empty cache resolve to the
\* same forest: when a getStacks() fetch resolves, every getStacks() call
\* that was issued while it was in flight and has already resolved has
\* returned the same forest, and the cache holds it.
C2_SameForest ==
    [][\A d \in Calls :
         (Completed(d) /\ calls[d].op = "getStacks" /\ calls'[d].result.ok) =>
            \A c \in Calls :
              (/\ calls[c].op = "getStacks" /\ calls[c].pc = "done"
               /\ calls[c].inv > calls[d].inv /\ calls[c].result.ok) =>
                 /\ calls[c].result.value.stacks = calls'[d].result.value.stacks
                 /\ cache'.stacks = calls[c].result.value.stacks]_vars

C5_ClearDuringFetch ==
    [][/\ ClearStep =>
            /\ cache' = Null
            /\ invocations' = invocations
            /\ \A c \in InFlight :
                 /\ calls'[c].pc = "awaiting"
                 /\ calls'[c].op = calls[c].op /\ calls'[c].inv = calls[c].inv
       /\ \A c \in Calls :
            (Completed(c) /\ calls'[c].result.ok) =>
               /\ cache' = calls'[c].result.value
               /\ cache'.id = calls[c].inv]_vars

C5_Witness ==
    \E c \in Calls :
        /\ calls[c].pc = "done" /\ calls[c].clearedDuring /\ calls[c].result.ok
        /\ cache = calls[c].result.value
        /\ \E d \in Calls : d # c /\ calls[d].pc = "done" /\ calls[d].inv > 0
                            /\ calls[d].clearedDuring /\ calls[d].result.ok
                            /\ calls[d].result.value # cache

\* C6: while the cache is Loaded, getStacks() returns the stored forest at
\* once, invokes no client and leaves the cache unchanged, also when the
\* stored forest is the empty list.
C6_LoadedServesCache ==
    [][\A c \in Calls :
         (Started(c) /\ calls'[c].op = "getStacks" /\ cache # Null) =>
            /\ calls'[c].pc = "done"
            /\ calls'[c].result = [ok |-> TRUE, value |-> cache]
            /\ cache' = cache
            /\ invocations' = invocations]_vars

C6_Witness ==
    \E c \in Calls :
        /\ c + 1 \in Calls
        /\ \A d \in {c, c + 1} :
             /\ calls[d].op = "getStacks" /\ calls[d].pc = "done" /\ calls[d].inv = 0
             /\ calls[d].result.ok
             /\ calls[d].result.value.stacks = <<>>
             /\ calls[d].result.value = cache

\* C7: refreshStacks() invokes the client exactly once, Loaded or Empty, and
\* when its fetch succeeds the cache holds the newly fetched forest, which is
\* the value returned; the forests returned earlier are left as they were.
C7_RefreshReplaces ==
    [][/\ \A c \in Calls :
            (Started(c) /\ calls'[c].op = "refreshStacks") =>
               /\ invocations' = invocations + 1
               /\ calls'[c].pc = "awaiting"
               /\ calls'[c].inv = invocations'
               /\ cache' = cache
       /\ \A c \in Calls :
            (Completed(c) /\ calls[c].op = "refreshStacks") =>
               /\ invocations' = invocations
               /\ \A d \in Calls \ {c} : calls'[d] = calls[d]
               /\ calls'[c].result.ok =>
                    /\ cache' = calls'[c].result.value
                    /\ cache' = calls'[c].settled.value
                    /\ cache'.id = calls[c].inv]_vars

C7_Witness ==
    \E c \in Calls :
        /\ calls[c].op = "refreshStacks" /\ calls[c].pc = "done" /\ calls[c].result.ok
        /\ calls[c].loadedBefore
        /\ cache = calls[c].result.value
        /\ \E d \in Calls : /\ calls[d].pc = "done" /\ calls[d].result.ok
                            /\ calls[d].result.value.id < cache.id

\* C8: clearCache() is idempotent and fetches nothing: it leaves the cache
\* Empty and the client untouched, however often it is repeated, and a
\* getStacks() that follows it with nothing in flight invokes the client once.
C8_ClearIdempotent ==
    [][/\ ClearStep =>
            /\ cache' = Null
            /\ invocations' = invocations
            /\ InFlight' = InFlight
       /\ \A c \in Calls :
            (/\ Started(c) /\ calls'[c].op = "getStacks"
             /\ clearStreak >= 1 /\ InFlight = {}) =>
               /\ invocations' = invocations + 1
               /\ InFlight' = {c}]_vars

C8_Witness ==
    \E c \in Calls :
        /\ calls[c].op = "getStacks" /\ calls[c].pc = "awaiting"
        /\ calls[c].afterClears
        /\ calls[c].inv = invocations
        /\ InFlight = {c}
        /\ cache = Null

\* C9: for a fixed stderr stream, every way of cutting it into chunks
\* yields the events of the stream delivered as one chunk: when the first
\* invocation of a client closes, what it has logged and told the listeners
\* is what the single chunk yields.
C9_ChunkingIndependent ==
    (proc.pc = "closed" /\ proc.no = 1) =>
        events = OnStderrData(<<>>, proc.stream, StatusListeners).events

\* the same for the streams made of ASCII bytes only
AsciiChunkingIndependent ==
    (/\ proc.pc = "closed" /\ proc.no = 1
     /\ \A i \in 1..Len(proc.stream) : proc.stream[i] \notin {"C3", "A9"}) =>
        events = OnStderrData(<<>>, proc.stream, StatusListeners).events

\* C10: the unterminated fragment left in the line buffer when a process
\* exits is discarded: no invocation logs or forwards anything but what its
\* own stream yields with a line buffer that starts empty.
C10_FragmentDiscarded ==
    events = own.events

\* C11: the line-reassembly state belongs to one invocation: when two
\* invocations of one client overlap and their stderr chunks interleave, each
\* of them logs and forwards what its own stream yields with a line buffer
\* that no other invocation touches.
C11_PrivateLineBuffer ==
    /\ events = own.events
    /\ other.events = other.own.events

\* C12: listeners are called exactly for the decoded events with EventId 1:
\* the k-th line a chunk completes yields the k-th log entry, followed by one
\* call of every registered listener, in registration order, with the
\* Message of the event when the line is an event with EventId 1, whatever
\* its Message, and by no listener call otherwise.
C12_ListenersForStatus ==
    [][DataStep =>
         LET P(line, g) ==
               LET parsed == JSONparse(trim(line))
               IN  g.calls = IF parsed.kind = "object" /\ parsed.EventId = "1"
                             THEN CallsInOrder(parsed.Message)
                             ELSE <<>>
         IN  (\A d \in {Decoded} :
                   d.aligned /\ \A k \in 1..Len(d.lines) : P(d.lines[k], d.groups[k]))]_vars

\* the same for the events with EventId 1 that carry a Message: an event
\* with EventId 1 and an empty Message causes no listener call
ListenersForStatusWithMessage ==
    [][DataStep =>
         LET P(line, g) ==
               LET parsed == JSONparse(trim(line))
               IN  g.calls = IF /\ parsed.kind = "object" /\ parsed.EventId = "1"
                                /\ parsed.Message # <<>>
                             THEN CallsInOrder(parsed.Message)
                             ELSE <<>>
         IN  (\A d \in {Decoded} :
                   d.aligned /\ \A k \in 1..Len(d.lines) : P(d.lines[k], d.groups[k]))]_vars

\* C13: a listener that throws stops nothing: in the group of calls of one
\* event, every listener registered after a throwing one is called after it;
\* the chunk yields one log entry for each line it completes, the lines
\* after the event included, exactly as with listeners that do not throw;
\* the promise stays pending, and settles by the exit code alone.
C13_ThrowingListenerIgnored ==
    [][/\ DataStep =>
            LET calm == [i \in 1..Len(statusListeners) |-> [throws |-> FALSE]]
                P(line, g) ==
                  \A i \in 1..Len(g.calls) :
                     statusListeners[g.calls[i].listener].throws =>
                         /\ Len(g.calls) = Len(statusListeners)
                         /\ \A j \in (i + 1)..Len(statusListeners) :
                              g.calls[j].listener = j
            IN  /\ (\A d \in {Decoded} :
                   d.aligned /\ \A k \in 1..Len(d.lines) : P(d.lines[k], d.groups[k]))
                /\ NewEvents = OnStderrData(stderrLineBuffer, Arrived, calm).events
                /\ outcome' = outcome
       /\ CloseStep => (outcome'.ok <=> proc'.code = 0)]_vars

\* a throwing listener was called first, the listener registered after it
\* was called next, the line after the event was logged, and the call
\* resolved
C13_Witness ==
    /\ proc.pc = "closed" /\ proc.code = 0 /\ outcome.ok
    /\ Len(statusListeners) = 2 /\ statusListeners[1].throws
    /\ Len(events) = 4
    /\ events[2].kind = "status" /\ events[2].listener = 1
    /\ events[3].kind = "status" /\ events[3].listener = 2
    /\ events[4].kind = "log"

\* C14: a complete line that is not valid JSON is logged as plain text, as
\* it is, and causes no listener call; the lines after it are processed (the
\* chunk yields one log entry for each line it completes); the promise stays
\* pending, and settles by the exit code alone.
C14_NonJsonLineLogged ==
    [][/\ DataStep =>
            LET P(line, g) ==
                  JSONparse(trim(line)).kind = "SyntaxError" =>
                      g = [log |-> [kind |-> "log", level |-> "info",
                                    prefix |-> "", text |-> trim(line)],
                           calls |-> <<>>]
            IN  /\ (\A d \in {Decoded} :
                   d.aligned /\ \A k \in 1..Len(d.lines) : P(d.lines[k], d.groups[k]))
                /\ outcome' = outcome
       /\ CloseStep => (outcome'.ok <=> proc'.code = 0)]_vars

\* with a listener registered, a line of plain text was logged, the status
\* event after it was logged and told to the listener, and the call failed
\* with exit code 1
C14_Witness ==
    /\ proc.pc = "closed" /\ proc.code = 1 /\ ~outcome.ok
    /\ Len(statusListeners) = 1
    /\ Len(events) = 3
    /\ events[1] = [kind |-> "log", level |-> "info", prefix |-> "", text |-> <<"a">>]
    /\ events[2].kind = "log" /\ events[2].prefix = "[status] "
    /\ events[3].kind = "status"

\* C15: the promise of exec resolves only when the process has closed with
\* exit code 0; it then resolves with the stdout chunks, decoded and joined
\* in the order they arrived; when the process closes with another exit code
\* the promise is rejected with an error that carries the exit code, the
\* command line and all the stderr text of the invocation.
C15_SettlesByExitCode ==
    /\ proc.pc = "running" => outcome = NoResult
    /\ (outcome # NoResult /\ outcome.ok) => (proc.pc = "closed" /\ proc.code = 0)
    /\ (proc.pc = "closed" /\ proc.code = 0) =>
           outcome = [ok |-> TRUE, value |-> Flatten(stdoutChunks)]
    /\ (proc.pc = "closed" /\ proc.code # 0) =>
           outcome = [ok |-> FALSE,
                      error |-> [name |-> "Error", code |-> proc.code,
                                 cmd |-> ExecCmd, stderr |-> proc.stream]]

\* the process wrote two different chunks to stdout and some stderr text and
\* closed with exit code 0
C15_Witness ==
    /\ proc.pc = "closed" /\ proc.code = 0
    /\ stdoutChunks = << <<"y", "z">>, <<"x">> >>
    /\ outcome = [ok |-> TRUE, value |-> <<"y", "z", "x">>]
    /\ proc.stream # <<>>

\* C16: the promise a mutating operation returns settles only once the
\* process of the operation has exited, and it is resolved when the exit
\* code is 0 and rejected otherwise.
C16_SettlesAfterExit ==
    apiCall.promise # NoResult =>
        /\ proc.pc = "closed"
        /\ apiCall.promise.ok <=> proc.code = 0

\* the same for the operations other than newStack
AwaitedOpsSettleAfterExit ==
    (apiCall.op # "newStack" /\ apiCall.promise # NoResult) =>
        /\ proc.pc = "closed"
        /\ apiCall.promise.ok <=> proc.code = 0

\* C17: a registered listener stays registered as long as the client lives:
\* no step removes or moves a listener, and every chunk handled after the
\* registration, of whichever invocation, calls the listener for each event
\* with EventId 1 that the chunk completes.
C17_ListenerLifetime ==
    [][/\ Len(statusListeners') >= Len(statusListeners)
       /\ SubSeq(statusListeners', 1, Len(statusListeners)) = statusListeners
       /\ DataStep =>
            LET P(line, g) ==
                  LET parsed == JSONparse(trim(line))
                  IN  (parsed.kind = "object" /\ parsed.EventId = "1") =>
                        \A i \in 1..Len(statusListeners) :
                           \E c \in 1..Len(g.calls) : g.calls[c].listener = i
            IN  (\A d \in {Decoded} :
                   d.aligned /\ \A k \in 1..Len(d.lines) : P(d.lines[k], d.groups[k]))]_vars

\* the part of it that does not depend on the Message: no step removes or
\* moves a listener, and whenever a chunk causes a listener call for an
\* event, it calls every listener registered by then
ListenerStaysRegistered ==
    [][/\ Len(statusListeners') >= Len(statusListeners)
       /\ SubSeq(statusListeners', 1, Len(statusListeners)) = statusListeners
       /\ DataStep =>
            LET P(line, g) == g.calls # <<>> => g.calls = CallsInOrder(g.log.text)
            IN  (\A d \in {Decoded} :
                   d.aligned /\ \A k \in 1..Len(d.lines) : P(d.lines[k], d.groups[k]))]_vars

\* a listener registered while the second invocation was running has been
\* called for a status event of that invocation
ListenerRegisteredWhileRunning ==
    /\ proc.no = 2 /\ proc.pc = "running"
    /\ Len(statusListeners) = 2
    /\ Len(events) = 4
    /\ events[1].kind = "log" /\ events[2].kind = "status" /\ events[3].kind = "log"
    /\ events[4].kind = "status" /\ events[4].listener = 1

\* C18: an operation invoked with a tree element runs against the client
\* (and, for a read, the cache) of the repository whose cache produced the
\* element, whichever repositories are open and whichever operation it is.
C18_RoutedToOwnRepository ==
    (lastOp.kind \notin {"none", "root", "aggregatedRoot"} /\ lastOp.api # NoApi) =>
        lastOp.api = lastOp.origin

\* the same for the reads: a repository element is expanded from the cache
\* of its own repository
ReadsRoutedToOwnRepository ==
    lastOp.kind = "expandRepository" => lastOp.api = lastOp.origin

\* a state the provider reaches: two repositories with the same folder name
\* are open and a sync invoked with a stack of one of them has run against
\* the client of the other
SyncMisroutedByEqualNames ==
    /\ lastOp.kind = "sync"
    /\ lastOp.origin \in Range(apis)
    /\ lastOp.api # lastOp.origin
    /\ RepositoryName(lastOp.api) = RepositoryName(lastOp.origin)

\* C19: a step that adds or removes a repository leaves the cache of every
\* repository that is open before and after it as it was.
C19_OtherCachesKept ==
    [][apis' # apis =>
         \A q \in Range(apis) \cap Range(apis') : stackCaches'[q] = stackCaches[q]]_vars

\* the same for the steps that remove a repository
RemoveKeepsOtherCaches ==
    [][Len(apis') < Len(apis) =>
         \A q \in Range(apis) \cap Range(apis') : stackCaches'[q] = stackCaches[q]]_vars

\* C20: with more than one repository open, a root listing asks no client
\* for its forest and loads no cache; a step that starts or ends a stack
\* count query loads no cache; a cache is loaded, and a client asked for the
\* forest, only by the expansion of the repository element of that
\* repository.
C20_ForestOnlyOnExpand ==
    [][/\ (lastOp'.kind \in {"root", "aggregatedRoot"} /\ lastOp'.multi) =>
            (lastOp'.fetched = {} /\ stackCaches' = stackCaches)
       /\ (countLoads' # countLoads \/ repositoryStackCounts' # repositoryStackCounts) =>
            \A p \in Paths : stackCaches'[p] \in {stackCaches[p], Null}
       /\ Len(apis) > 1 =>
            \A p \in Paths :
               (stackCaches[p] = Null /\ stackCaches'[p] # Null) =>
                   (lastOp'.kind = "expandRepository" /\ lastOp'.origin = p)
       /\ (lastOp'.multi /\ lastOp'.fetched # {}) =>
            (lastOp'.kind = "expandRepository" /\ lastOp'.fetched = {lastOp'.origin})]_vars

\* with three repositories open, one stack count known and the others being
\* queried, the root has been listed and every cache is still Empty
C20_Witness ==
    /\ lastOp.kind = "root" /\ lastOp.multi
    /\ Len(apis) = 3
    /\ repositoryStackCounts # {}
    /\ countLoads # {}
    /\ loadingStackCounts = countLoads
    /\ \A p \in Paths : stackCaches[p] = Null

\* with two repositories open, the expansion of a repository element has
\* fetched the forest of that repository alone
ExpandedOneRepository ==
    /\ lastOp.kind = "expandRepository" /\ lastOp.multi
    /\ lastOp.fetched = {lastOp.origin}
    /\ \E p \in Range(apis) : stackCaches[p] = Null
    /\ stackCaches[lastOp.origin] # Null

RootEmptyAfterRemoval ==
    /\ lastOp.kind = "root"
    /\ apis = <<>>
    /\ lastOp.children = {}
    /\ held # NoElement

\* after a removal one repository is left and the root shows its stacks
RootFlatAfterRemoval ==
    /\ lastOp.kind = "root"
    /\ Len(apis) = 1
    /\ held.type = "repository"
    /\ \E e \in lastOp.children : e.type = "stack"

\* the parent status item among the children of the expanded branch
ParentStatusItems ==
    { k \in 1..Len(branchChildren.treeItems) :
        branchChildren.treeItems[k].type = "branchParentStatus" }

\* C22: a branch can be compared to its parent exactly when the branch
\* exists and has no remote tracking branch or one that exists; never when
\* the branch does not exist, never when its remote tracking branch does not
\* exist. The parent status item is shown for branches that can be compared
\* only.
C22_CanCompareRule ==
    branchChildren.index > 0 =>
        LET branch == branchChildren.stack.branches[branchChildren.index]
            absent == branch.remoteTrackingBranch = Null
            compared == branchChildren.compared
        IN  /\ compared <=> (branch.exists /\ (absent \/ branch.remoteTrackingBranch.exists))
            /\ ~branch.exists => ~compared
            /\ (~absent /\ ~branch.remoteTrackingBranch.exists) => ~compared
            /\ ParentStatusItems # {} => compared
            /\ (compared /\ branchChildren.error = Null) => ParentStatusItems # {}

\* a branch that exists, whose remote tracking branch was deleted, has been
\* expanded
C22_Witness ==
    /\ branchChildren.index = 2
    /\ LET branch == branchChildren.stack.branches[2]
       IN  /\ branch.exists
           /\ branch.remoteTrackingBranch # Null
           /\ ~branch.remoteTrackingBranch.exists
    /\ ~branchChildren.compared
    /\ ParentStatusItems = {}

\* a branch without remote tracking branch has been expanded and shows its
\* parent status
ComparedWithoutRemote ==
    /\ branchChildren.index = 1
    /\ branchChildren.stack.branches[1].remoteTrackingBranch = Null
    /\ ParentStatusItems # {}

\* C23: the behind count of the parent status item of a branch is the
\* branch's parent.behind plus the behind of the remote tracking branch of
\* its parent branch (0 without one).
C23_TransitiveBehind ==
    \A k \in ParentStatusItems :
        LET stack == branchChildren.stack
            branch == stack.branches[branchChildren.index]
            parentBranch == ParentBranch(stack, branchChildren.index)
        IN  branchChildren.treeItems[k].behindParent =
                branch.parent.behind
                + (IF parentBranch.remoteTrackingBranch = Null THEN 0
                   ELSE parentBranch.remoteTrackingBranch.behind)

\* what holds instead: the behind count is the branch's parent.behind alone
BehindIsParentBehind ==
    \A k \in ParentStatusItems :
        branchChildren.treeItems[k].behindParent =
            branchChildren.stack.branches[branchChildren.index].parent.behind

\* a lookup is issued in this step
LookupIssued == lookup.pc # "awaiting" /\ lookup' # lookup

\* C24: a lookup on a Loaded cache returns at once, without an invocation
\* of the client, the stack or branch of the name, or undefined when the
\* forest has none; a lookup on an Empty cache starts exactly one fetch and
\* returns the same way from the forest the fetch brought; a lookup throws
\* only the error of its own failed fetch, never for a missing name.
C24_LookupUndefinedNotError ==
    [][/\ (LookupIssued /\ cache # Null) =>
            /\ invocations' = invocations
            /\ lookup'.pc = "done" /\ lookup'.result.ok
            /\ (\A i \in 1..Len(cache.stacks) : cache.stacks[i] # lookup'.stackName) =>
                   lookup'.result.value = UndefinedValue
       /\ (LookupIssued /\ cache = Null) =>
            /\ invocations' = invocations + 1
            /\ lookup'.pc = "awaiting"
            /\ InFlight' = InFlight \cup {lookup'.call}
       /\ (lookup.pc = "awaiting" /\ lookup'.pc = "done") =>
            LET fetch == calls'[lookup.call].settled
                known == /\ \E i \in 1..Len(fetch.value.stacks) :
                               fetch.value.stacks[i] = lookup.stackName
                         /\ lookup.kind = "getBranchByName" =>
                               \E i \in 1..Len(BranchesOf(lookup.stackName)) :
                                  BranchesOf(lookup.stackName)[i].name = lookup.branchName
            IN  /\ invocations' = invocations
                /\ lookup'.result.ok = fetch.ok
                /\ ~fetch.ok => lookup'.result = fetch
                /\ fetch.ok =>
                     IF known
                     THEN lookup'.result.value.name
                            = (IF lookup.kind = "getStackByName" THEN lookup.stackName
                               ELSE lookup.branchName)
                     ELSE lookup'.result.value = UndefinedValue]_vars

\* a lookup of a stack the Loaded forest does not hold has returned
\* undefined, and the client was invoked once, by the lookup that loaded
\* the cache
C24_Witness ==
    /\ lookup.pc = "done" /\ lookup.call = 0
    /\ lookup.kind = "getStackByName" /\ lookup.stackName = "s2"
    /\ lookup.result = [ok |-> TRUE, value |-> UndefinedValue]
    /\ cache # Null /\ cache.stacks = <<"s1">>
    /\ invocations = 1

\* a lookup of a branch on an Empty cache has fetched a forest that holds the
\* stack and has returned undefined for the branch
BranchLookupLoadedForest ==
    /\ lookup.pc = "done" /\ lookup.call # 0
    /\ lookup.kind = "getBranchByName" /\ lookup.branchName = "b2"
    /\ lookup.result = [ok |-> TRUE, value |-> UndefinedValue]
    /\ cache # Null /\ cache.stacks = <<"s1">>

\* a lookup on an Empty cache has thrown the error of its failed fetch
LookupFetchFailed ==
    /\ lookup.pc = "done" /\ lookup.call # 0
    /\ ~lookup.result.ok
    /\ lookup.result.error.name = "Error"

\* the process of the command's operation closes in this step with code 0
OperationSucceeds == ~command.exited /\ command'.exited /\ proc'.code = 0

\* C25: when the mutating operation of a command has succeeded, the cache
\* of the repository is Empty, whichever operation it was.
C25_EmptyAfterMutation ==
    [][OperationSucceeds => cache' = Null]_vars

\* the same for the commands that refresh and whose operation awaits exec
AwaitedRefreshingOpsInvalidate ==
    [][(OperationSucceeds /\ Awaits(command.op) /\ Refreshes(command.op)) =>
           (cache' = Null /\ command'.refreshed)]_vars

\* a switch has succeeded and the cache still holds the forest it held
SwitchKeepsCache ==
    /\ command.op = "switchToBranch" /\ command.exited /\ proc.code = 0
    /\ cache # Null
    /\ \A c \in Calls : calls[c].pc # "awaiting"

\* C26: refresh() runs only once the process of the command's operation has
\* exited, and no status query is started after a refresh() while that
\* process is running.
C26_RefreshAfterExit ==
    [][/\ (~command.refreshed /\ command'.refreshed) => proc'.pc = "closed"
       /\ (command.refreshed /\ invocations' > invocations) => proc.pc = "closed"]_vars

\* the same for the operations that await exec
AwaitedOpsRefreshAfterExit ==
    [][Awaits(command'.op) =>
         /\ (~command.refreshed /\ command'.refreshed) => proc'.pc = "closed"
         /\ (command'.refreshed /\ invocations' > invocations) => proc.pc = "closed"]_vars

\* C27: a getStacks() call that returns after the operation of a command has
\* succeeded and refresh() has run returns a forest whose status query was
\* started after the operation completed.
C27_NoStaleForest ==
    [][\A c \in Calls :
         (/\ command.refreshed /\ command.exited /\ proc.code = 0
          /\ calls[c].pc # "done" /\ calls'[c].pc = "done"
          /\ calls'[c].result.ok) =>
             calls'[c].result.value.id > command.invocationsAtExit]_vars

\* a pull has succeeded and refreshed while a status query was in flight;
\* the query has since stored its forest, and a getStacks() call issued after
\* all that has got it from the cache
StaleForestServed ==
    \E c \in Calls :
        /\ command.op = "pull" /\ command.refreshed /\ command.exited /\ proc.code = 0
        /\ calls[c].pc = "done" /\ calls[c].inv = 0 /\ calls[c].result.ok
        /\ calls[c].result.value.id <= command.invocationsAtExit
        /\ \E d \in Calls : calls[d].clearedDuring /\ calls[d].inv = calls[c].result.value.id

\* C28: a command run with an element, and the refresh() that follows it,
\* leave the cache of every repository other than the one its operation ran
\* against as it was.
C28_OtherRepositoriesUntouched ==
    [][(lastOp'.kind \in ElementOps /\ lastOp'.api # NoApi) =>
         \A q \in Range(apis) \ {lastOp'.api} : stackCaches'[q] = stackCaches[q]]_vars

\* the reads are independent: a root listing or the expansion of a
\* repository element changes no cache but that of its own repository
ReadsTouchOwnCacheOnly ==
    [][lastOp'.kind \in {"root", "expandRepository", "aggregatedRoot", "switchTo"} =>
         \A q \in Paths \ {lastOp'.origin} : stackCaches'[q] = stackCaches[q]]_vars

\* two repositories are open and a push that ran on a stack of one of
\* them, against the client of that repository, has left both caches Empty
PushClearedOtherCache ==
    /\ lastOp.kind = "push" /\ lastOp.api = lastOp.origin
    /\ Len(apis) = 2
    /\ \A q \in Range(apis) : stackCaches[q] = Null
    /\ held.type = "stack" /\ held.origin = lastOp.origin

\* C29: the provider holds a client and a cache only for repositories that
\* are open: once a repository is closed the root does not list it and no
\* operation runs against its client.
C29_ClosedRepositoryDropped ==
    /\ \A p \in Range(apis) : p \in gitRepositories
    /\ lastOp.kind = "root" => \A e \in lastOp.children : e.origin \in gitRepositories
    /\ lastOp.api # NoApi => lastOp.api \in gitRepositories

\* two repositories were open, one was closed, and the root listed after
\* that still shows a repository element for it
ClosedRepositoryListed ==
    /\ lastOp.kind = "root"
    /\ Cardinality(gitRepositories) = 1
    /\ \E e \in lastOp.children : e.type = "repository" /\ e.origin \notin gitRepositories

\* a sync has run against the client of a repository that is closed
SyncOnClosedRepository ==
    /\ lastOp.kind = "sync"
    /\ lastOp.api # NoApi
    /\ lastOp.api \notin gitRepositories

\* what the handler does keep: every open repository is registered
OpenRepositoriesRegistered ==
    \A p \in gitRepositories : p \in Range(apis)

\* C30: whatever a chunk's complete lines hold, the handler returns without
\* an exception and has handled every one of them: each line that is not
\* blank has its log entry, those after a line that is not an event too.
C30_NoExceptionEscapes ==
    [][DataStep =>
         (\A d \in {Decoded} :
            /\ \A k \in 1..Len(NewEvents) : NewEvents[k].kind # "exception"
            /\ d.aligned)]_vars

\* the same for the chunks that complete no line `null`
LinesButNullHandled ==
    [][(DataStep /\ \A k \in 1..Len(CompleteLines) :
                       JSONparse(trim(CompleteLines[k])).kind # "null") =>
         (\A d \in {Decoded} :
            /\ \A k \in 1..Len(NewEvents) : NewEvents[k].kind # "exception"
            /\ d.aligned)]_vars

\* the line `null` has thrown out of the handler and the status event after
\* it, in the same chunk, was dropped: no log entry, no listener call
NullLineDroppedStatus ==
    /\ proc.pc = "running" /\ proc.pos = Len(proc.stream)
    /\ proc.stream = <<"null", "LF", "{", "1", "a", "}", "LF">>
    /\ statusListeners # <<>>
    /\ events = << [kind |-> "exception", name |-> "TypeError"] >>

\* a number, a string, an array and an object without members are logged as
\* "undefined" and the status event after them reaches the listener
ValueLineThenStatus ==
    /\ proc.pc = "running" /\ proc.pos = Len(proc.stream)
    /\ proc.stream = <<"[", "]", "LF", "{", "1", "a", "}", "LF">>
    /\ Len(events) = 3
    /\ events[1].kind = "log" /\ events[1].text = <<"undefined">>
    /\ events[3].kind = "status"

\* the branch whose element was expanded last
ExpandedBranch == branchChildren.stack.branches[branchChildren.index]

\* the parent status and pull request items among the children returned
StatusAndPullRequestItems ==
    { k \in 1..Len(branchChildren.treeItems) :
        branchChildren.treeItems[k].type \in {"branchParentStatus", "pullRequest"} }

\* C31: getChildren on a branch element returns without throwing for every
\* branch of the data model, a branch that can be compared and has a null
\* parent included; for a branch that cannot be compared it returns neither
\* a parent status item nor a pull request item.
C31_BranchChildrenNeverThrow ==
    branchChildren.element = "branch" =>
        /\ branchChildren.error = Null
        /\ ~branchChildren.compared => StatusAndPullRequestItems = {}

\* what holds of the second part: a branch that cannot be compared shows
\* neither item, whatever its parent and its pull request are
NotComparedShowsNeither ==
    (branchChildren.element = "branch" /\ ~branchChildren.compared) =>
        (branchChildren.error = Null /\ StatusAndPullRequestItems = {})

\* getChildren throws exactly for the branches that can be compared and have
\* a null parent
ThrowsOnNullParentOnly ==
    branchChildren.element = "branch" =>
        (branchChildren.error # Null <=>
            (branchChildren.compared /\ ExpandedBranch.parent = Null))

\* a branch that exists, has no remote tracking branch, a null parent and
\* two children has been expanded: a TypeError and no children
NullParentThrew ==
    /\ branchChildren.element = "branch"
    /\ ExpandedBranch.exists /\ ExpandedBranch.remoteTrackingBranch = Null
    /\ ExpandedBranch.parent = Null /\ Len(ExpandedBranch.children) = 2
    /\ branchChildren.error = TypeError /\ branchChildren.treeItems = <<>>

\* a branch that does not exist, with a null parent and a pull request, has
\* been expanded and shows its child branches only
NotComparedNullParent ==
    /\ branchChildren.element = "branch" /\ branchChildren.error = Null
    /\ ~ExpandedBranch.exists /\ ExpandedBranch.parent = Null
    /\ ExpandedBranch.pullRequest # Null
    /\ Len(branchChildren.treeItems) = 2

\* C34: the branch elements under a stack element are the branches of
\* stack.branches in their order; the children getChildren returns for a
\* branch element end with the branches of branch.children in their order,
\* and only parent status and pull request items come before them.
C34_OrderPreserved ==
    /\ branchChildren.element = "stack" =>
         /\ Len(branchChildren.treeItems) = Len(branchChildren.stack.branches)
         /\ \A k \in 1..Len(branchChildren.treeItems) :
              /\ branchChildren.treeItems[k].type = "branch"
              /\ branchChildren.treeItems[k].branch = branchChildren.stack.branches[k]
    /\ (branchChildren.element = "branch" /\ branchChildren.error = Null) =>
         LET n == Len(ExpandedBranch.children)
             m == Len(branchChildren.treeItems)
         IN  /\ m >= n
             /\ StatusAndPullRequestItems = 1..(m - n)
             /\ \A k \in 1..n :
                  /\ branchChildren.treeItems[m - n + k].type = "branch"
                  /\ branchChildren.treeItems[m - n + k].branch = ExpandedBranch.children[k]

\* a branch with a pull request and the children c2, c1 has been expanded:
\* the parent status, the pull request, then c2 and c1
C34_Witness ==
    /\ branchChildren.element = "branch" /\ branchChildren.error = Null
    /\ Len(branchChildren.treeItems) = 4
    /\ branchChildren.treeItems[1].type = "branchParentStatus"
    /\ branchChildren.treeItems[2].type = "pullRequest"
    /\ branchChildren.treeItems[3].branch.name = "c2"
    /\ branchChildren.treeItems[4].branch.name = "c1"

\* the stack element of a stack of two branches has been expanded
StackOfTwoExpanded ==
    /\ branchChildren.element = "stack"
    /\ Len(branchChildren.treeItems) = 2
    /\ branchChildren.treeItems[1].branch.name = "b1"
    /\ branchChildren.treeItems[2].branch.name = "b2"

\* C32: when the process of the operation of a command has failed, the
\* command has invalidated no cache and fired no refresh.
C32_NoRefreshOnFailure ==
    (command.op # "none" /\ command.exited /\ ~outcome.ok) => ~command.refreshed

\* the same for the commands whose operation awaits exec
AwaitedOpsKeepCacheOnFailure ==
    (command.op # "none" /\ Awaits(command.op) /\ command.exited /\ ~outcome.ok) =>
        ~command.refreshed

\* a failing step of the process of an awaited operation leaves the cache as
\* it is
FailureStepKeepsCache ==
    [][(~command.exited /\ command'.exited /\ ~outcome'.ok /\ Awaits(command.op)) =>
           (cache' = cache /\ calls' = calls)]_vars

\* `stack new` has failed after the command had cleared the loaded cache
NewStackFailedAfterRefresh ==
    /\ command.op = "newStack" /\ command.exited /\ ~outcome.ok
    /\ command.refreshed
    /\ cache = Null /\ invocations > 0

\* a sync has failed and the cache holds the forest it held
SyncFailedCacheKept ==
    /\ command.op = "sync" /\ command.exited /\ ~outcome.ok
    /\ ~command.refreshed /\ cache # Null

\* the forest a lookup that completes in this step has read: the cache it
\* found, or the forest of the fetch it awaited
LookupReadsCache == LookupIssued /\ cache # Null
LookupReadsFetch ==
    /\ lookup.pc = "awaiting" /\ lookup'.pc = "done"
    /\ calls'[lookup.call].settled.ok

\* C33: getStackByName(name) returns the stack of that name whenever the
\* forest it found cached or loaded holds one, whatever clearCache() calls
\* ran before the lookup or while its fetch was in flight.
C33_StackFoundDespiteClear ==
    [][/\ (LookupReadsCache /\ lookup'.kind = "getStackByName"
           /\ \E i \in 1..Len(cache.stacks) : cache.stacks[i] = lookup'.stackName) =>
             /\ lookup'.pc = "done" /\ lookup'.result.ok
             /\ lookup'.result.value # UndefinedValue
             /\ lookup'.result.value.name = lookup'.stackName
       /\ (LookupReadsFetch /\ lookup.kind = "getStackByName"
           /\ \E i \in 1..Len(calls'[lookup.call].settled.value.stacks) :
                 calls'[lookup.call].settled.value.stacks[i] = lookup.stackName) =>
             /\ lookup'.result.ok
             /\ lookup'.result.value # UndefinedValue
             /\ lookup'.result.value.name = lookup.stackName]_vars

\* getStackByName("s1") has loaded a forest with s1 while clearCache() ran
\* during its fetch, and has returned the stack
C33_Witness ==
    /\ lookup.pc = "done" /\ lookup.kind = "getStackByName" /\ lookup.stackName = "s1"
    /\ lookup.call # 0 /\ calls[lookup.call].clearedDuring
    /\ calls[lookup.call].settled.ok
    /\ lookup.result.ok /\ lookup.result.value # UndefinedValue
    /\ lookup.result.value.name = "s1"

\* the names of the branches of a tree of branches, two levels deep
NamesIn(branches) ==
    { branches[i].name : i \in 1..Len(branches) }
    \cup UNION { { branches[i].children[j].name : j \in 1..Len(branches[i].children) } :
                 i \in 1..Len(branches) }

\* C38: the ids of the tree items of a tree of more than one repository are
\* pairwise distinct, two repositories with a stack of the same name
\* included.
C38_DistinctIds ==
    Len(apis) > 1 =>
        \A x \in ShownElements, y \in ShownElements :
            x # y => TreeItemId(x) # TreeItemId(y)

\* what holds: the ids of the repository elements are distinct, and so are
\* the ids of the stack elements of one repository
IdsDistinctWithinRepository ==
    \A x \in ShownElements, y \in ShownElements :
        (x # y /\ (x.type = "repository" \/ y.type = "repository" \/ x.origin = y.origin)) =>
            TreeItemId(x) # TreeItemId(y)

\* two repositories are expanded and each shows a stack s1 with the id s1
SameIdInTwoRepositories ==
    /\ Len(apis) = 2
    /\ \A p \in Range(apis) : stackCaches[p] # Null
    /\ \E x \in ShownElements, y \in ShownElements :
         /\ x.type = "stack" /\ y.type = "stack" /\ x.origin # y.origin
         /\ TreeItemId(x) = <<"s1">> /\ TreeItemId(y) = <<"s1">>

\* C39: getBranchByName(stack, branch) returns the branch whenever a branch
\* of that name occurs in the tree of the named stack, the branches under
\* another branch's children included, and undefined only when there is none.
C39_FindsNestedBranch ==
    [][LET FoundInTree(forest, l) ==
               IF /\ \E i \in 1..Len(forest.stacks) : forest.stacks[i] = l.stackName
                  /\ l.branchName \in NamesIn(BranchesOf(l.stackName))
               THEN /\ l.result.ok /\ l.result.value # UndefinedValue
                    /\ l.result.value.name = l.branchName
               ELSE l.result.ok /\ l.result.value = UndefinedValue
       IN  /\ (LookupReadsCache /\ lookup'.kind = "getBranchByName") =>
                    FoundInTree(cache, lookup')
           /\ (LookupReadsFetch /\ lookup.kind = "getBranchByName") =>
                    FoundInTree(calls'[lookup.call].settled.value, lookup')]_vars

\* what holds instead: the branch is returned when it is one of
\* stack.branches, and undefined otherwise
TopLevelBranchFound ==
    [][LET FoundAtTop(forest, l) ==
               IF /\ \E i \in 1..Len(forest.stacks) : forest.stacks[i] = l.stackName
                  /\ \E i \in 1..Len(BranchesOf(l.stackName)) :
                        BranchesOf(l.stackName)[i].name = l.branchName
               THEN /\ l.result.ok /\ l.result.value # UndefinedValue
                    /\ l.result.value.name = l.branchName
               ELSE l.result.ok /\ l.result.value = UndefinedValue
       IN  /\ (LookupReadsCache /\ lookup'.kind = "getBranchByName") =>
                    FoundAtTop(cache, lookup')
           /\ (LookupReadsFetch /\ lookup.kind = "getBranchByName") =>
                    FoundAtTop(calls'[lookup.call].settled.value, lookup')]_vars

\* the lookup of c1, stacked on b1 in s1, on a cache that holds s1 has
\* returned undefined
NestedBranchNotFound ==
    /\ lookup.pc = "done" /\ lookup.call = 0
    /\ lookup.kind = "getBranchByName"
    /\ lookup.stackName = "s1" /\ lookup.branchName = "c1"
    /\ cache # Null /\ cache.stacks = <<"s1">>
    /\ lookup.result = [ok |-> TRUE, value |-> UndefinedValue]

ListedWhileRemoved ==
    /\ aggregated.kind = "multi" /\ aggregated.pc = "done" /\ aggregated.changed
    /\ Len(aggregated.roots) = 2 /\ Len(aggregated.repositories) = 2
    /\ \E p \in Range(aggregated.repositories) :
         \A k \in 1..Len(aggregated.roots) : aggregated.roots[k].provider # p

\* C36: the recorded stack counts and the repositories marked as loading
\* are registered repositories, in every state, a removeRepository() during
\* a running count load included.
C36_CountsOfRegisteredOnly ==
    /\ repositoryStackCounts \subseteq Range(apis)
    /\ loadingStackCounts \subseteq Range(apis)

\* what holds: the loading flags are those of registered repositories
LoadingFlagsOfRegisteredOnly == loadingStackCounts \subseteq Range(apis)

\* and while no query of a removed repository is running, so are the counts
CountsRegisteredWithoutLateLoad ==
    [][(repositoryStackCounts \subseteq Range(apis)
        /\ \A p \in Paths : p \notin Range(apis) => LoadsOf(p) = 0) =>
           repositoryStackCounts' \subseteq Range(apis')]_vars

\* a repository was removed while its stack list query was running, and the
\* query has since recorded its count
CountOfRemovedRepository ==
    \E p \in Paths :
        /\ p \notin Range(apis) /\ p \in repositoryStackCounts
        /\ LoadsOf(p) = 0 /\ apis # <<>>

\* C37: at most one stack list query per repository is running at any time,
\* whatever addRepository(), root getChildren() and refresh() calls run
\* during a query; and a recorded count comes from a query that was started
\* after the last refresh().
C37_OneCountLoadPerRepository ==
    /\ \A p \in Paths : LoadsOf(p) <= 1
    /\ stackCountLoads.staleCounts = {}

\* what holds: while the loading flag of a repository is set, no query is
\* started for it
NoLoadWhileFlagSet ==
    [][\A p \in Paths : p \in loadingStackCounts => LoadsOf(p)' <= LoadsOf(p)]_vars

\* a refresh() ran during the query of a repository and the root listing
\* that followed has started another one
TwoLoadsOfOneRepository ==
    \E p \in Paths :
        /\ p \in Range(apis) /\ Len(apis) > 1
        /\ stackCountLoads.stale[p] = 1 /\ stackCountLoads.fresh[p] = 1

\* two queries of a repository, both started after the last refresh(), are
\* running: the loading flag was deleted while the first one ran
TwoFreshLoads ==
    \E p \in Paths : stackCountLoads.fresh[p] = 2

\* the count shown for a repository was recorded by a query that was started
\* before the last refresh()
StaleCountRecorded ==
    \E p \in Paths :
        /\ p \in Range(apis) /\ p \in repositoryStackCounts
        /\ p \in stackCountLoads.staleCounts

TypeOK ==
    /\ invocations \in 0..MaxCalls
    /\ clearStreak \in 0..MaxClears
====
